---- MODULE Spec2Model ----
(***************************************************************************)
(* Hexagonal three-way merge game (megamerge): the core engine             *)
(* (core/game.ts, core/mergeLogic.ts, core/hexUtils.ts, core/constants.ts) *)
(* and the zustand store around it (stores/gameStore.ts).                  *)
(*                                                                         *)
(* A HexCoord {q, r} is the pair <<q, r>>.  A Tile is a record             *)
(* [id, value, position, isNew, isMerged]; the tile built by mergeTriplet  *)
(* has no isNew field, as in the source.  A grid (Tile[]) is a sequence.   *)
(* Tile ids are opaque strings in the source, compared only by ===.  In    *)
(* Spec, StoreSpec, MergeSpec, LateSpec, FreshSpec and TripletSpec they are *)
(* numbers and each id built is the next unused one (nextId): the runs in  *)
(* which no two id strings coincide.  IdSpec builds the id as the source   *)
(* does, from Date.now() (the variable now) and a Math.random() result.    *)
(*                                                                         *)
(* last, calls and played are history variables: the last call and what it *)
(* computed, the calls made so far, and the {grid, score} the state had    *)
(* before each effective move of the current game that no undo has taken   *)
(* back.  swipe is the state of the useSwipeDetection hook: its refs and   *)
(* the deadlines of the timers it has set.                                 *)
(***************************************************************************)
EXTENDS Integers, Sequences, FiniteSets, TLC

VARIABLES grid, score, bestScore, isGameOver, isWon, canUndo, history,
          undosRemaining, gameMode, nextId, rng, calls, last, now, played,
          swipe

gameVars == <<grid, score, bestScore, isGameOver, isWon, canUndo, history,
              undosRemaining>>
vars == <<grid, score, bestScore, isGameOver, isWon, canUndo, history,
          undosRemaining, gameMode, nextId, rng, calls, last, now,
          played, swipe>>
\* the state of the useSwipeDetection hook
hookVars == <<swipe>>

(***************************************************************************)
(* Small helpers for JavaScript built-ins.                                 *)
(***************************************************************************)
Abs(n) == IF n < 0 THEN -n ELSE n
Max(a, b) == IF a >= b THEN a ELSE b
Min(a, b) == IF a <= b THEN a ELSE b
Range(s) == {s[i] : i \in 1..Len(s)}

\* Array.prototype.filter with the predicate given as the set of kept indices' test
RECURSIVE FilterIdx(_, _, _)
FilterIdx(s, keep, i) ==
    IF i > Len(s) THEN <<>>
    ELSE (IF i \in keep THEN <<s[i]>> ELSE <<>>) \o FilterIdx(s, keep, i + 1)

Reverse(s) == [i \in 1..Len(s) |-> s[Len(s) + 1 - i]]

\* Math.round(n / 3) for an integer n: floor(n/3 + 1/2)
\* n / 3 cut down to an integer instead of rounded to the nearest one
FloorThird(n) == n \div 3

RoundThird(n) == (2 * n + 3) \div 6

(***************************************************************************)
(* core/constants.ts                                                       *)
(***************************************************************************)
GRID_SIZE == 5
TOTAL_TILES == 37
TILE_VALUES == <<2, 6, 18, 54, 162, 486, 1458, 4374, 13122, 39366, 118098,
                 354294, 1062882>>
\* `undefined` where a Tile is expected, and where a TileValue is expected
\* (getNextValue's result is only tested with !nextValue)
Undefined == [undefined |-> TRUE]
NoValue == 0

\* TILE_VALUES.indexOf(value), 0-based, -1 when absent
indexOf(value) ==
    IF \E i \in 1..Len(TILE_VALUES) : TILE_VALUES[i] = value
    THEN (CHOOSE i \in 1..Len(TILE_VALUES) : TILE_VALUES[i] = value) - 1
    ELSE -1

\* a progression read one entry too early: the "next" value is the value itself
valueAfterSame(index) ==
    IF index = -1 \/ index = Len(TILE_VALUES) - 1 THEN NoValue
    ELSE TILE_VALUES[index + 1]

valueAfter(index) ==
    IF index = -1 \/ index = Len(TILE_VALUES) - 1 THEN NoValue
    ELSE TILE_VALUES[index + 2]

getNextValue(value) == valueAfter(indexOf(value))

GameModes == {"classic", "timeTrials", "fastPace"}
undoLimit(mode) == IF mode = "classic" THEN 3 ELSE 0

(***************************************************************************)
(* core/hexUtils.ts                                                        *)
(***************************************************************************)
Directions == 0..5
DIRECTION_VECTORS == << <<-1, 1>>, <<-1, 0>>, <<0, -1>>, <<1, -1>>, <<1, 0>>,
                        <<0, 1>> >>
dirVector(d) == DIRECTION_VECTORS[d + 1]

addCoords(a, b) == <<a[1] + b[1], a[2] + b[2]>>
getS(coord) == -coord[1] - coord[2]
coordsEqual(a, b) == a[1] = b[1] /\ a[2] = b[2]
hexDistance(a, b) ==
    Max(Max(Abs(a[1] - b[1]), Abs(a[2] - b[2])), Abs(getS(a) - getS(b)))
radius == GRID_SIZE \div 2

RECURSIVE gridColumns(_)
gridColumns(q) ==
    IF q > radius THEN <<>>
    ELSE [i \in 1..(Min(radius, -q + radius) - Max(-radius, -q - radius) + 1) |->
            <<q, Max(-radius, -q - radius) + i - 1>>] \o gridColumns(q + 1)

getAllGridCoords == gridColumns(-radius)

getNeighbors(coord) ==
    [i \in 1..Len(DIRECTION_VECTORS) |-> addCoords(coord, DIRECTION_VECTORS[i])]

isValidCoord(coord) ==
    /\ Abs(coord[1]) <= radius
    /\ Abs(coord[2]) <= radius
    /\ Abs(getS(coord)) <= radius

\* the enum Direction of core/types.ts
NORTHEAST == 0
EAST == 1
SOUTHEAST == 2
SOUTHWEST == 3
WEST == 4
NORTHWEST == 5

\* hexToPixel: x = hexSize * (sqrt(3) * q + sqrt(3)/2 * r), in units of
\* sqrt(3)/2 pixels, and y = hexSize * (3/2 * r), in units of 3/2 pixels
hexToPixel(coord, hexSize) ==
    [x |-> hexSize * (2 * coord[1] + coord[2]), y |-> hexSize * coord[2]]

RECURSIVE getLine(_, _)
getLine(start, direction) ==
    IF ~isValidCoord(addCoords(start, dirVector(direction))) THEN <<start>>
    ELSE <<start>> \o getLine(addCoords(start, dirVector(direction)), direction)

\* the while-loop of getAllLines that walks back to the start of the line
RECURSIVE lineStart(_, _)
lineStart(start, oppositeDir) ==
    IF ~isValidCoord(addCoords(start, dirVector(oppositeDir))) THEN start
    ELSE lineStart(addCoords(start, dirVector(oppositeDir)), oppositeDir)

RECURSIVE allLinesFrom(_, _, _)
addLine(direction, i, used, line) ==
    <<line>> \o allLinesFrom(direction, i + 1, used \cup Range(line))

\* the for-loop of getAllLines from the i-th coordinate on
allLinesFrom(direction, i, used) ==
    IF i > Len(getAllGridCoords) THEN <<>>
    ELSE IF getAllGridCoords[i] \in used
         THEN allLinesFrom(direction, i + 1, used)
         ELSE addLine(direction, i, used,
                      getLine(lineStart(getAllGridCoords[i], (direction + 3) % 6),
                              direction))

\* the lines of the opposite direction: the same cells, walked the other way
getAllLinesOpposite(direction) == allLinesFrom((direction + 3) % 6, 1, {})

getAllLines(direction) == allLinesFrom(direction, 1, {})

\* the six results of getAllLines, computed once
Lines == [d \in Directions |-> getAllLines(d)]

(***************************************************************************)
(* core/mergeLogic.ts                                                      *)
(***************************************************************************)
\* grid.find(tile => coordsEqual(tile.position, coord)): the first such tile
getTileAtCoord(g, coord) ==
    IF \E i \in 1..Len(g) : coordsEqual(g[i].position, coord)
    THEN g[CHOOSE i \in 1..Len(g) :
              /\ coordsEqual(g[i].position, coord)
              /\ \A j \in 1..(i - 1) : ~coordsEqual(g[j].position, coord)]
    ELSE Undefined

hasId(g, id) == \E i \in 1..Len(g) : g[i].id = id

\* a search that tries the first pair of matching neighbours only
firstPairOnly(centerTile, m, i, j) ==
    IF \E k \in 1..6 : coordsEqual(getNeighbors(m[1].position)[k], m[2].position)
    THEN <<centerTile, m[1], m[2]>>
    ELSE <<>>

\* the two nested loops over pairs of matching neighbours (lines 27-38)
RECURSIVE firstAdjacentPair(_, _, _, _)
firstAdjacentPair(centerTile, m, i, j) ==
    IF i > Len(m) THEN <<>>
    ELSE IF j > Len(m) THEN firstAdjacentPair(centerTile, m, i + 1, i + 2)
    ELSE IF \E k \in 1..6 : coordsEqual(getNeighbors(m[i].position)[k], m[j].position)
         THEN <<centerTile, m[i], m[j]>>
         ELSE firstAdjacentPair(centerTile, m, i, j + 1)

\* neighbors.map(getTileAtCoord).filter(tile && tile.value === centerTile.value)
matchingOf(found, value) ==
    FilterIdx(found, {k \in 1..Len(found) : IF found[k] = Undefined THEN FALSE
                                            ELSE found[k].value = value}, 1)

tripletWith(centerTile, matchingNeighbors) ==
    IF Len(matchingNeighbors) < 2 THEN <<>>
    ELSE firstAdjacentPair(centerTile, matchingNeighbors, 1, 2)

tripletAround(g, coord, centerTile) ==
    IF centerTile = Undefined THEN <<>>
    ELSE tripletWith(centerTile,
                     matchingOf([k \in 1..6 |-> getTileAtCoord(g, getNeighbors(coord)[k])],
                                centerTile.value))

findTripletsAt(g, coord) == tripletAround(g, coord, getTileAtCoord(g, coord))

RECURSIVE scanTriplets(_, _, _)
scanFound(g, i, checkedCoords, triplet) ==
    IF Len(triplet) = 3
    THEN <<triplet>> \o
         scanTriplets(g, i + 1,
                      checkedCoords \cup {g[i].position}
                        \cup {triplet[k].position : k \in 1..3})
    ELSE scanTriplets(g, i + 1, checkedCoords \cup {g[i].position})

\* the for-loop of findAllTriplets from the i-th tile on
scanTriplets(g, i, checkedCoords) ==
    IF i > Len(g) THEN <<>>
    ELSE IF g[i].position \in checkedCoords
         THEN scanTriplets(g, i + 1, checkedCoords)
         ELSE scanFound(g, i, checkedCoords, findTripletsAt(g, g[i].position))

findAllTriplets(g) == scanTriplets(g, 1, {})

canMergeAnywhere(g) == Len(findAllTriplets(g)) > 0

\* the merged tile put on the cell of the first tile of the triplet
centerOfFirst(triplet) == triplet[1].position

\* the merged tile's position: rounded componentwise average
centerPosition(triplet) ==
    <<RoundThird(triplet[1].position[1] + triplet[2].position[1]
                 + triplet[3].position[1]),
      RoundThird(triplet[1].position[2] + triplet[2].position[2]
                 + triplet[3].position[2])>>

\* lines 92-118 of mergeTriplet
mergeInto(g, triplet, newId, nextValue) ==
    IF nextValue = NoValue
    THEN [grid |-> g, scoreIncrease |-> 0, created |-> 0]
    ELSE [grid |-> Append(FilterIdx(g, {i \in 1..Len(g) :
                                          ~\E k \in 1..3 : triplet[k].id = g[i].id}, 1),
                          [id |-> newId, value |-> nextValue,
                           position |-> centerPosition(triplet),
                           isMerged |-> TRUE]),
          scoreIncrease |-> triplet[1].value * 3, created |-> 1]

\* result {grid, scoreIncrease}; created = 1 when a tile (of id newId) was made
mergeTriplet(g, triplet, newId) ==
    IF Len(triplet) # 3 THEN [grid |-> g, scoreIncrease |-> 0, created |-> 0]
    ELSE mergeInto(g, triplet, newId, getNextValue(triplet[1].value))

RECURSIVE mergePass(_, _, _, _, _, _)
mergeDone(triplets, k, stepScore, nid, merges, m) ==
    mergePass(m.grid, triplets, k + 1, stepScore + m.scoreIncrease,
              nid + m.created, merges + m.created)

\* a pass that merges every triplet found, consumed or not
mergePassAll(newGrid, triplets, k, stepScore, nid, merges) ==
    IF k > Len(triplets)
    THEN [grid |-> newGrid, stepScore |-> stepScore, nextId |-> nid,
          merges |-> merges]
    ELSE mergeDone(triplets, k, stepScore, nid, merges,
                   mergeTriplet(newGrid, triplets[k], nid))

\* the for-loop over the triplets of one pass (lines 140-151) from the k-th on
mergePass(newGrid, triplets, k, stepScore, nid, merges) ==
    IF k > Len(triplets)
    THEN [grid |-> newGrid, stepScore |-> stepScore, nextId |-> nid,
          merges |-> merges]
    ELSE IF \E t \in 1..3 : ~hasId(newGrid, triplets[k][t].id)
         THEN mergePass(newGrid, triplets, k + 1, stepScore, nid, merges)
         ELSE mergeDone(triplets, k, stepScore, nid, merges,
                        mergeTriplet(newGrid, triplets[k], nid))

\* the while-loop of resolveAllMerges.  A pass that finds triplets and leaves
\* the grid as it was is repeated identically for ever: terminates = FALSE.
\* passes = number of passes that merged something, merges = tiles created,
\* boards = the working grid after each of those passes.
RECURSIVE resolveLoop(_, _, _, _, _, _)
\* a resolution that returns after its first pass
resolvePassedOnce(currentGrid, totalScore, nid, passes, merges, boards, p) ==
    [grid |-> p.grid, scoreIncrease |-> totalScore + p.stepScore,
     nextId |-> p.nextId, passes |-> passes + 1, merges |-> merges + p.merges,
     boards |-> Append(boards, p.grid), terminates |-> TRUE]

resolvePassed(currentGrid, totalScore, nid, passes, merges, boards, p) ==
    IF p.grid = currentGrid
    THEN [grid |-> currentGrid, scoreIncrease |-> totalScore,
          nextId |-> nid, passes |-> passes, merges |-> merges,
          boards |-> boards, terminates |-> FALSE]
    ELSE resolveLoop(p.grid, totalScore + p.stepScore, p.nextId,
                     passes + 1, merges + p.merges, Append(boards, p.grid))

resolveFound(currentGrid, totalScore, nid, passes, merges, boards, triplets) ==
    IF Len(triplets) = 0
    THEN [grid |-> currentGrid, scoreIncrease |-> totalScore,
          nextId |-> nid, passes |-> passes, merges |-> merges,
          boards |-> boards, terminates |-> TRUE]
    ELSE resolvePassed(currentGrid, totalScore, nid, passes, merges, boards,
                       mergePass(currentGrid, triplets, 1, 0, nid, 0))

resolveLoop(currentGrid, totalScore, nid, passes, merges, boards) ==
    resolveFound(currentGrid, totalScore, nid, passes, merges, boards,
                 findAllTriplets(currentGrid))

resolveAllMerges(g, nid) == resolveLoop(g, 0, nid, 0, 0, <<>>)

(***************************************************************************)
(* core/game.ts                                                            *)
(***************************************************************************)
\* Math.random() yields one of RandomDraws, in thousandths.  The generator is a
\* stream fixed when the program starts: rng.pattern, any sequence of
\* RandomPeriod draws, repeated; rng.pos counts the calls made so far.
DrawLevels == 2
RandomPeriod == 3
RandomDraws == {(k * 950) \div (DrawLevels - 1) : k \in 0..(DrawLevels - 1)}
RandomPatterns == [1..RandomPeriod -> RandomDraws]
\* the result of the k-th call from now (k = 0 is the next call)
random(r, k) == r.pattern[((r.pos + k) % RandomPeriod) + 1]
advance(r, n) == [r EXCEPT !.pos = (r.pos + n) % RandomPeriod]

initializeGrid == <<>>

\* getAllGridCoords().filter(coord => !grid.some(tile at coord))
emptyCoords(g) ==
    FilterIdx(getAllGridCoords,
              {i \in 1..Len(getAllGridCoords) :
                 ~\E t \in 1..Len(g) : coordsEqual(g[t].position, getAllGridCoords[i])},
              1)

\* lines 34-53 of addRandomTile
spawnOn(g, empty, rPos, rVal, newId) ==
    IF Len(empty) = 0 THEN g
    ELSE Append(g, [id |-> newId, value |-> IF rVal < 900 THEN 2 ELSE 6,
                    position |-> empty[((rPos * Len(empty)) \div 1000) + 1],
                    isNew |-> TRUE, isMerged |-> FALSE])

\* a spawn that finds no empty position: the grid is returned as it is
addNoTile(g, rPos, rVal, newId) == spawnOn(g, <<>>, rPos, rVal, newId)

\* a spawn that picks its cell among all the cells of the grid
addRandomTileAnywhere(g, rPos, rVal, newId) ==
    spawnOn(g, getAllGridCoords, rPos, rVal, newId)

\* rPos, rVal: the two Math.random() results; newId: the id string built
addRandomTile(g, rPos, rVal, newId) == spawnOn(g, emptyCoords(g), rPos, rVal, newId)

\* tile.isNew || false, tile.isMerged || false
flagOf(tile, f) == IF f \in DOMAIN tile THEN tile[f] ELSE FALSE

\* a move that starts from the tiles as they are, flags included
resetGridKept(g) == g

\* lines 95-99
resetGrid(g) ==
    [i \in 1..Len(g) |-> [id |-> g[i].id, value |-> g[i].value,
                          position |-> g[i].position,
                          isNew |-> FALSE, isMerged |-> FALSE]]

\* the tiles of a line collected from its far end first
tilesInLineReversed(movedGrid, line) ==
    Reverse(FilterIdx([c \in 1..Len(line) |-> getTileAtCoord(movedGrid, line[c])],
                      {c \in 1..Len(line) :
                         getTileAtCoord(movedGrid, line[c]) # Undefined}, 1))

\* line.map(coord => getTileAtCoord(movedGrid, coord)).filter(tile => !!tile)
tilesInLineOf(movedGrid, line) ==
    FilterIdx([c \in 1..Len(line) |-> getTileAtCoord(movedGrid, line[c])],
              {c \in 1..Len(line) : getTileAtCoord(movedGrid, line[c]) # Undefined}, 1)

\* the tiles of the line pushed back against the last cells of the line
placeAtEnd(movedGrid, line, tilesInLine) ==
    IF Len(tilesInLine) = 0 THEN [grid |-> movedGrid, moved |-> FALSE]
    ELSE [grid |-> FilterIdx(movedGrid,
                             {t \in 1..Len(movedGrid) :
                                ~\E c \in 1..Len(tilesInLine) :
                                    tilesInLine[c].id = movedGrid[t].id}, 1)
                   \o [c \in 1..Len(tilesInLine) |->
                         [id |-> tilesInLine[c].id,
                          value |-> tilesInLine[c].value,
                          position |-> line[Len(line) - Len(tilesInLine) + c],
                          isNew |-> flagOf(tilesInLine[c], "isNew"),
                          isMerged |-> flagOf(tilesInLine[c], "isMerged")]],
          moved |-> \E c \in 1..Len(tilesInLine) :
                       ~coordsEqual(tilesInLine[c].position,
                                    line[Len(line) - Len(tilesInLine) + c])]

\* the tiles of the line taken out and only the first of them pushed back
placeFirstInLine(movedGrid, line, tilesInLine) ==
    IF Len(tilesInLine) = 0 THEN [grid |-> movedGrid, moved |-> FALSE]
    ELSE [grid |-> FilterIdx(movedGrid,
                             {t \in 1..Len(movedGrid) :
                                ~\E c \in 1..Len(tilesInLine) :
                                    tilesInLine[c].id = movedGrid[t].id}, 1)
                   \o <<[id |-> tilesInLine[1].id,
                         value |-> tilesInLine[1].value,
                         position |-> line[1],
                         isNew |-> flagOf(tilesInLine[1], "isNew"),
                         isMerged |-> flagOf(tilesInLine[1], "isMerged")]>>,
          moved |-> \E c \in 1..Len(tilesInLine) :
                       ~coordsEqual(tilesInLine[c].position, line[c])]

\* lines 114-138: the tiles of the line taken out and pushed back at line[0..]
placeInLine(movedGrid, line, tilesInLine) ==
    IF Len(tilesInLine) = 0 THEN [grid |-> movedGrid, moved |-> FALSE]
    ELSE [grid |-> FilterIdx(movedGrid,
                             {t \in 1..Len(movedGrid) :
                                ~\E c \in 1..Len(tilesInLine) :
                                    tilesInLine[c].id = movedGrid[t].id}, 1)
                   \o [c \in 1..Len(tilesInLine) |->
                         [id |-> tilesInLine[c].id,
                          value |-> tilesInLine[c].value,
                          position |-> line[c],
                          isNew |-> flagOf(tilesInLine[c], "isNew"),
                          isMerged |-> flagOf(tilesInLine[c], "isMerged")]],
          moved |-> \E c \in 1..Len(tilesInLine) :
                       ~coordsEqual(tilesInLine[c].position, line[c])]

\* the body of the loop over lines (lines 108-139) for one line
slideLine(movedGrid, line) ==
    placeInLine(movedGrid, line, tilesInLineOf(movedGrid, line))

RECURSIVE slideLines(_, _, _, _)
slideNext(lines, k, moved, s) == slideLines(s.grid, lines, k + 1, moved \/ s.moved)

slideLines(movedGrid, lines, k, moved) ==
    IF k > Len(lines) THEN [grid |-> movedGrid, moved |-> moved]
    ELSE slideNext(lines, k, moved, slideLine(movedGrid, lines[k]))

\* the slide phase of moveInDirection (lines 94-139)
slideGrid(g, direction) == slideLines(resetGrid(g), Lines[direction], 1, FALSE)

\* the value of one tile taken for the highest of the board
highestOfFirst(g, i) == IF i > Len(g) THEN 0 ELSE g[i].value

RECURSIVE highestTile(_, _)
highestTile(g, i) ==
    IF i > Len(g) THEN 0 ELSE Max(g[i].value, highestTile(g, i + 1))

\* an effective move that calls the game over as soon as the board is full
movedStateFullIsOver(gameState, slid, res, newGrid) ==
    [state |-> [gameState EXCEPT
                  !.grid = newGrid,
                  !.score = gameState.score + res.scoreIncrease,
                  !.bestScore = Max(gameState.bestScore,
                                    gameState.score + res.scoreIncrease),
                  !.isWon = highestTile(newGrid, 1) >= 1062882,
                  !.isGameOver = Len(emptyCoords(newGrid)) = 0,
                  !.canUndo = TRUE,
                  !.history = Append(gameState.history,
                                     [grid |-> gameState.grid,
                                      score |-> gameState.score])],
     moved |-> TRUE, terminates |-> res.terminates,
     movedGrid |-> slid.grid, mergedGrid |-> res.grid,
     scoreIncrease |-> res.scoreIncrease, passes |-> res.passes,
     merges |-> res.merges,
     nextId |-> res.nextId + (Len(newGrid) - Len(res.grid))]

\* lines 152-175: the state returned by an effective move
movedState(gameState, slid, res, newGrid) ==
    [state |-> [gameState EXCEPT
                  !.grid = newGrid,
                  !.score = gameState.score + res.scoreIncrease,
                  !.bestScore = Max(gameState.bestScore,
                                    gameState.score + res.scoreIncrease),
                  !.isWon = highestTile(newGrid, 1) >= 1062882,
                  !.isGameOver = Len(emptyCoords(newGrid)) = 0
                                   /\ ~canMergeAnywhere(newGrid),
                  !.canUndo = TRUE,
                  !.history = Append(gameState.history,
                                     [grid |-> gameState.grid,
                                      score |-> gameState.score])],
     moved |-> TRUE, terminates |-> res.terminates,
     movedGrid |-> slid.grid, mergedGrid |-> res.grid,
     scoreIncrease |-> res.scoreIncrease, passes |-> res.passes,
     merges |-> res.merges,
     nextId |-> res.nextId + (Len(newGrid) - Len(res.grid))]

\* lines 146-150
mergedMove(gameState, slid, res, rPos, rVal) ==
    movedState(gameState, slid, res,
               addRandomTile(res.grid, rPos, rVal, res.nextId))

\* a move that goes on to merge and spawn whether or not a tile was moved
slidMoveAlways(gameState, slid, rPos, rVal, nid) ==
    mergedMove(gameState, slid, resolveAllMerges(slid.grid, nid), rPos, rVal)

\* lines 141-147
slidMove(gameState, slid, rPos, rVal, nid) ==
    IF ~slid.moved
    THEN [state |-> gameState, moved |-> FALSE, terminates |-> TRUE,
          movedGrid |-> slid.grid, mergedGrid |-> slid.grid,
          scoreIncrease |-> 0, passes |-> 0, merges |-> 0, nextId |-> nid]
    ELSE mergedMove(gameState, slid, resolveAllMerges(slid.grid, nid), rPos, rVal)

\* moveInDirection: the returned state, with the intermediate results kept
moveInDirection(gameState, direction, rPos, rVal, nid) ==
    slidMove(gameState, slideGrid(gameState.grid, direction), rPos, rVal, nid)

\* an undo that restores the oldest snapshot instead of the newest
undoMoveOldest(gameState) ==
    IF ~gameState.canUndo \/ Len(gameState.history) = 0
         \/ gameState.undosRemaining <= 0
    THEN gameState
    ELSE [gameState EXCEPT
            !.grid = gameState.history[1].grid,
            !.score = gameState.history[1].score,
            !.isGameOver = FALSE,
            !.isWon = FALSE,
            !.canUndo = Len(gameState.history) - 1 > 0,
            !.history = SubSeq(gameState.history, 1, Len(gameState.history) - 1),
            !.undosRemaining = gameState.undosRemaining - 1]

\* an undo that does not look at the budget
undoMoveUnbudgeted(gameState) ==
    IF ~gameState.canUndo \/ Len(gameState.history) = 0
    THEN gameState
    ELSE [gameState EXCEPT
            !.grid = gameState.history[Len(gameState.history)].grid,
            !.score = gameState.history[Len(gameState.history)].score,
            !.isGameOver = FALSE,
            !.isWon = FALSE,
            !.canUndo = Len(gameState.history) - 1 > 0,
            !.history = SubSeq(gameState.history, 1, Len(gameState.history) - 1),
            !.undosRemaining = gameState.undosRemaining - 1]

\* an undo that does not spend the budget
undoMoveFree(gameState) ==
    IF ~gameState.canUndo \/ Len(gameState.history) = 0
         \/ gameState.undosRemaining <= 0
    THEN gameState
    ELSE [gameState EXCEPT
            !.grid = gameState.history[Len(gameState.history)].grid,
            !.score = gameState.history[Len(gameState.history)].score,
            !.isGameOver = FALSE,
            !.isWon = FALSE,
            !.canUndo = Len(gameState.history) - 1 > 0,
            !.history = SubSeq(gameState.history, 1, Len(gameState.history) - 1)]

\* an undo that leaves canUndo as it was
undoMoveStillUndoable(gameState) ==
    IF ~gameState.canUndo \/ Len(gameState.history) = 0
         \/ gameState.undosRemaining <= 0
    THEN gameState
    ELSE [gameState EXCEPT
            !.grid = gameState.history[Len(gameState.history)].grid,
            !.score = gameState.history[Len(gameState.history)].score,
            !.isGameOver = FALSE,
            !.isWon = FALSE,
            !.history = SubSeq(gameState.history, 1, Len(gameState.history) - 1),
            !.undosRemaining = gameState.undosRemaining - 1]

\* an undo that leaves isGameOver and isWon as the undone move set them
undoMoveFlagged(gameState) ==
    IF ~gameState.canUndo \/ Len(gameState.history) = 0
         \/ gameState.undosRemaining <= 0
    THEN gameState
    ELSE [gameState EXCEPT
            !.grid = gameState.history[Len(gameState.history)].grid,
            !.score = gameState.history[Len(gameState.history)].score,
            !.canUndo = Len(gameState.history) - 1 > 0,
            !.history = SubSeq(gameState.history, 1, Len(gameState.history) - 1),
            !.undosRemaining = gameState.undosRemaining - 1]

undoMove(gameState) ==
    IF ~gameState.canUndo \/ Len(gameState.history) = 0
         \/ gameState.undosRemaining <= 0
    THEN gameState
    ELSE [gameState EXCEPT
            !.grid = gameState.history[Len(gameState.history)].grid,
            !.score = gameState.history[Len(gameState.history)].score,
            !.isGameOver = FALSE,
            !.isWon = FALSE,
            !.canUndo = Len(gameState.history) - 1 > 0,
            !.history = SubSeq(gameState.history, 1, Len(gameState.history) - 1),
            !.undosRemaining = gameState.undosRemaining - 1]

\* the five addRandomTile calls of initializeGameState; draws[i] = <<rPos, rVal>>
RECURSIVE initialFill(_, _, _, _)
initialFill(g, draws, i, nid) ==
    IF i > 5 THEN g
    ELSE initialFill(addRandomTile(g, draws[i][1], draws[i][2], nid + i - 1),
                     draws, i + 1, nid)

initializeGameState(draws, nid) ==
    [grid |-> initialFill(initializeGrid, draws, 1, nid),
     score |-> 0, bestScore |-> 0, isGameOver |-> FALSE, isWon |-> FALSE,
     canUndo |-> FALSE, history |-> <<>>, undosRemaining |-> 3]

\* a reset that starts bestScore afresh as well
resetGameFresh(gameState, draws, nid) == initializeGameState(draws, nid)

resetGame(gameState, draws, nid) ==
    [initializeGameState(draws, nid) EXCEPT !.bestScore = gameState.bestScore]

\* a test that looks for an empty cell only
hasEmptyCell(g) == Len(emptyCoords(g)) > 0

hasValidMoves(g) ==
    IF Len(emptyCoords(g)) > 0 THEN TRUE ELSE canMergeAnywhere(g)

(***************************************************************************)
(* hooks/useSwipeDetection.ts                                              *)
(***************************************************************************)
\* the defaults of the hook's parameters (lines 12-13) and the delay of the
\* timer of line 86, in milliseconds and pixels
threshold == 50
timeout == 300
cooldown == 200

\* the refs after the first render (lines 16-19); timers = the times at which
\* the pending setTimeout callbacks become due
mountedHook ==
    [startX |-> 0, startY |-> 0, startTime |-> 0, processingTouch |-> FALSE,
     timers |-> {}]

\* getHexDirection: the angle of (dx, dy) in degrees, in [0, 360), falls in
\* [330, 30) EAST, [30, 90) SOUTHEAST, [90, 150) SOUTHWEST, [150, 210) WEST,
\* [210, 270) NORTHWEST, [270, 330) NORTHEAST.  For integers dx, dy the angle
\* is below 30 degrees from the x axis exactly when 3 * dy^2 < dx^2.
getHexDirection(dx, dy) ==
    IF dx >= 0 /\ 3 * dy * dy < dx * dx THEN EAST
    ELSE IF dx = 0 /\ dy = 0 THEN EAST
    ELSE IF dy > 0 /\ dx > 0 THEN SOUTHEAST
    ELSE IF dy > 0 /\ 3 * dy * dy > dx * dx THEN SOUTHWEST
    ELSE IF 3 * dy * dy < dx * dx THEN WEST
    ELSE IF dx < 0 THEN NORTHWEST
    ELSE NORTHEAST

\* handleTouchStart (lines 55-61) at time t
handleTouchStart(hook, x, y, t) ==
    IF hook.processingTouch THEN hook
    ELSE [hook EXCEPT !.startX = x, !.startY = y, !.startTime = t]

\* lines 79-89: Math.sqrt(dx * dx + dy * dy) >= threshold compared on squares
swipeOf(hook, dx, dy, time, t) ==
    IF time <= timeout /\ dx * dx + dy * dy >= threshold * threshold
    THEN [hook |-> [hook EXCEPT !.processingTouch = TRUE,
                                !.timers = @ \cup {t + cooldown}],
          dispatched |-> TRUE, direction |-> getHexDirection(dx, dy)]
    ELSE [hook |-> hook, dispatched |-> FALSE, direction |-> -1]

\* a touchend handler that does not look at processingTouchRef
handleTouchEndUnguarded(hook, x, y, t) ==
    swipeOf(hook, x - hook.startX, y - hook.startY, t - hook.startTime, t)

\* handleTouchEnd (lines 67-90) at time t: the hook after it, whether onSwipe
\* was called, and with which direction
handleTouchEnd(hook, x, y, t) ==
    IF hook.processingTouch
    THEN [hook |-> hook, dispatched |-> FALSE, direction |-> -1]
    ELSE swipeOf(hook, x - hook.startX, y - hook.startY, t - hook.startTime, t)

\* the callback of setTimeout (lines 86-88) for the timer due at `due`
cooldownOver(hook, due) ==
    [hook EXCEPT !.processingTouch = FALSE, !.timers = @ \ {due}]

(***************************************************************************)
(* The engine as a state machine: the GameState held by the caller, and    *)
(* one action per call of the core API.  `last` records the call just made *)
(* and its intermediate results; `calls` counts the move and reset calls   *)
(* of a run and the undos that took effect since the last reset.           *)
(***************************************************************************)
MaxMoves == 3
MaxResets == 2

GameState ==
    [grid |-> grid, score |-> score, bestScore |-> bestScore,
     isGameOver |-> isGameOver, isWon |-> isWon, canUndo |-> canUndo,
     history |-> history, undosRemaining |-> undosRemaining]

SetState(s) ==
    /\ grid' = s.grid
    /\ score' = s.score
    /\ bestScore' = s.bestScore
    /\ isGameOver' = s.isGameOver
    /\ isWon' = s.isWon
    /\ canUndo' = s.canUndo
    /\ history' = s.history
    /\ undosRemaining' = s.undosRemaining

\* the ten Math.random() calls of initializeGameState
initialDraws(r) == [i \in 1..5 |-> <<random(r, 2 * i - 2), random(r, 2 * i - 1)>>]

InitState(s) ==
    /\ grid = s.grid
    /\ score = s.score
    /\ bestScore = s.bestScore
    /\ isGameOver = s.isGameOver
    /\ isWon = s.isWon
    /\ canUndo = s.canUndo
    /\ history = s.history
    /\ undosRemaining = s.undosRemaining

InitWith(r) ==
    /\ InitState(initializeGameState(initialDraws(r), 1))
    /\ rng = advance(r, 10)

Init ==
    /\ \E pattern \in RandomPatterns : InitWith([pattern |-> pattern, pos |-> 0])
    /\ gameMode = "classic"
    /\ nextId = 6
    /\ calls = [move |-> 0, reset |-> 0, undos |-> 0]
    /\ last = [op |-> "init"]
    /\ now = 0
    /\ played = <<>>
    /\ swipe = mountedHook

\* what an undo record keeps of the call made before it
callSummary(call) ==
    IF call.op = "move"
    THEN [op |-> "move", direction |-> call.direction, pre |-> call.pre,
          moved |-> call.moved]
    ELSE [op |-> call.op]

ApplyMove(direction, m) ==
    IF ~m.terminates
    THEN /\ last' = [op |-> "hang"]
         /\ UNCHANGED <<gameVars, nextId, rng, played>>
    ELSE /\ SetState(m.state)
         /\ played' = IF m.moved
                       THEN Append(played, [grid |-> grid, score |-> score])
                       ELSE played
         /\ nextId' = m.nextId
         /\ rng' = advance(rng, 2 * (Len(m.state.grid) - Len(m.mergedGrid)))
         /\ last' = [op |-> "move", direction |-> direction,
                     pre |-> GameState, preMode |-> gameMode,
                     moved |-> m.moved,
                     movedGrid |-> m.movedGrid, mergedGrid |-> m.mergedGrid,
                     scoreIncrease |-> m.scoreIncrease,
                     passes |-> m.passes, merges |-> m.merges]

\* moveInDirection(state, direction)
Move(direction) ==
    /\ last.op # "hang"
    /\ calls.move < MaxMoves
    /\ ApplyMove(direction, moveInDirection(GameState, direction, random(rng, 0),
                                            random(rng, 1), nextId))
    /\ calls' = [calls EXCEPT !.move = @ + 1]
    /\ UNCHANGED <<gameMode, now, hookVars>>

\* undoMove(state)
Undo ==
    /\ last.op # "hang"
    /\ SetState(undoMove(GameState))
    /\ last' = [op |-> "undo", pre |-> GameState, before |-> callSummary(last)]
    /\ calls' = [calls EXCEPT
                   !.undos = IF undoMove(GameState) = GameState THEN @ ELSE @ + 1]
    /\ played' = IF undoMove(GameState) = GameState THEN played
                  ELSE SubSeq(played, 1, Len(played) - 1)
    /\ UNCHANGED <<gameMode, nextId, rng, now, hookVars>>

\* resetGame(state)
Reset ==
    /\ last.op # "hang"
    /\ calls.reset < MaxResets
    /\ SetState(resetGame(GameState, initialDraws(rng), nextId))
    /\ nextId' = nextId + 5
    /\ rng' = advance(rng, 10)
    /\ last' = [op |-> "reset", pre |-> GameState]
    /\ calls' = [calls EXCEPT !.reset = @ + 1, !.undos = 0]
    /\ played' = <<>>
    /\ UNCHANGED <<gameMode, now, hookVars>>

Next ==
    \/ \E direction \in Directions : Move(direction)
    \/ Undo
    \/ Reset

Spec == Init /\ [][Next]_vars

(***************************************************************************)
(* stores/gameStore.ts: the store's actions around the core calls.         *)
(***************************************************************************)
\* a store move that is dispatched to the core whatever the flags say
StoreMoveUngated(direction) ==
    /\ last.op # "hang"
    /\ (isGameOver \/ isWon) \/ calls.move < MaxMoves
    /\ ApplyMove(direction,
                 moveInDirection(GameState, direction, random(rng, 0),
                                 random(rng, 1), nextId))
    /\ calls' = IF isGameOver \/ isWon THEN calls
                ELSE [calls EXCEPT !.move = @ + 1]
    /\ UNCHANGED <<gameMode, now, hookVars>>

\* moveInDirection (lines 41-47)
StoreMove(direction) ==
    /\ last.op # "hang"
    /\ IF isGameOver \/ isWon
       THEN /\ last' = [op |-> "blocked", pre |-> GameState,
                        preMode |-> gameMode]
            /\ UNCHANGED <<gameVars, nextId, rng, calls, played>>
       ELSE /\ calls.move < MaxMoves
            /\ ApplyMove(direction,
                         moveInDirection(GameState, direction, random(rng, 0),
                                         random(rng, 1), nextId))
            /\ calls' = [calls EXCEPT !.move = @ + 1]
    /\ UNCHANGED <<gameMode, now, hookVars>>

\* undoMove (lines 49-53)
StoreUndo ==
    /\ last.op # "hang"
    /\ SetState(undoMove(GameState))
    /\ last' = [op |-> "undo", pre |-> GameState, before |-> callSummary(last)]
    /\ calls' = [calls EXCEPT
                   !.undos = IF undoMove(GameState) = GameState THEN @ ELSE @ + 1]
    /\ played' = IF undoMove(GameState) = GameState THEN played
                  ELSE SubSeq(played, 1, Len(played) - 1)
    /\ UNCHANGED <<gameMode, nextId, rng, now, hookVars>>

\* a store reset that keeps the undo budget of the core's resetGame
resetForModeClassic(gameState, draws, nid, mode) == resetGame(gameState, draws, nid)

\* set({...coreReset(currentState), undosRemaining: modeConfig.undoLimit})
resetForMode(gameState, draws, nid, mode) ==
    [resetGame(gameState, draws, nid) EXCEPT !.undosRemaining = undoLimit(mode)]

\* resetGame (lines 55-66)
StoreReset ==
    /\ last.op # "hang"
    /\ calls.reset < MaxResets
    /\ SetState(resetForMode(GameState, initialDraws(rng), nextId, gameMode))
    /\ nextId' = nextId + 5
    /\ rng' = advance(rng, 10)
    /\ last' = [op |-> "reset", pre |-> GameState, preMode |-> gameMode]
    /\ calls' = [calls EXCEPT !.reset = @ + 1, !.undos = 0]
    /\ played' = <<>>
    /\ UNCHANGED <<gameMode, now, hookVars>>

\* setGameMode (lines 68-80)
SetGameMode(mode) ==
    /\ last.op # "hang"
    /\ calls.reset < MaxResets
    /\ SetState(resetForMode(GameState, initialDraws(rng), nextId, mode))
    /\ gameMode' = mode
    /\ nextId' = nextId + 5
    /\ rng' = advance(rng, 10)
    /\ last' = [op |-> "setGameMode", mode |-> mode, pre |-> GameState,
                preMode |-> gameMode]
    /\ calls' = [calls EXCEPT !.reset = @ + 1, !.undos = 0]
    /\ played' = <<>>
    /\ UNCHANGED <<now, hookVars>>

StoreNext ==
    \/ \E direction \in Directions : StoreMove(direction)
    \/ StoreUndo
    \/ StoreReset
    \/ \E mode \in GameModes : SetGameMode(mode)

StoreSpec == Init /\ [][StoreNext]_vars

(***************************************************************************)
(* resolveAllMerges as a function of the board: the board is drawn from    *)
(* the boards that hold, on each of the MergeCells cells nearest the       *)
(* centre, nothing, a tile of a base value or a tile of the next value.    *)
(***************************************************************************)
MergeCells == 9
BaseValues == {2, 354294}

\* the grid's cells, nearest the centre first
cellsByDistance ==
    FilterIdx(getAllGridCoords,
              {i \in 1..Len(getAllGridCoords) :
                 hexDistance(getAllGridCoords[i], <<0, 0>>) = 0}, 1)
    \o FilterIdx(getAllGridCoords,
                 {i \in 1..Len(getAllGridCoords) :
                    hexDistance(getAllGridCoords[i], <<0, 0>>) = 1}, 1)
    \o FilterIdx(getAllGridCoords,
                 {i \in 1..Len(getAllGridCoords) :
                    hexDistance(getAllGridCoords[i], <<0, 0>>) = 2}, 1)

mergeCells == SubSeq(cellsByDistance, 1, Min(MergeCells, Len(cellsByDistance)))

\* the tiles of a board: fill[i] = 0 (empty), 1 (base value) or 2 (next value)
tilesOf(cells, fill, base) ==
    [i \in 1..Len(cells) |->
        [id |-> i,
         value |-> IF fill[cells[i]] = 1 THEN base ELSE getNextValue(base),
         position |-> mergeCells[cells[i]], isNew |-> FALSE, isMerged |-> FALSE]]

boardOf(fill, base, reversed) ==
    tilesOf(IF reversed
            THEN Reverse(FilterIdx([i \in 1..Len(mergeCells) |-> i],
                                   {i \in 1..Len(mergeCells) : fill[i] # 0}, 1))
            ELSE FilterIdx([i \in 1..Len(mergeCells) |-> i],
                           {i \in 1..Len(mergeCells) : fill[i] # 0}, 1),
            fill, base)

MergeInit ==
    /\ \E fill \in [1..Len(mergeCells) -> 0..2], base \in BaseValues,
          reversed \in BOOLEAN :
         /\ grid = boardOf(fill, base, reversed)
         /\ nextId = Len(boardOf(fill, base, reversed)) + 1
    /\ score = 0
    /\ bestScore = 0
    /\ isGameOver = FALSE
    /\ isWon = FALSE
    /\ canUndo = FALSE
    /\ history = <<>>
    /\ undosRemaining = 3
    /\ gameMode = "classic"
    /\ rng = [pattern |-> [i \in 1..RandomPeriod |-> 0], pos |-> 0]
    /\ calls = [move |-> 0, reset |-> 0, undos |-> 0]
    /\ last = [op |-> "board"]
    /\ now = 0
    /\ played = <<>>
    /\ swipe = mountedHook

ApplyResolve(res) ==
    /\ last' = [op |-> IF res.terminates THEN "resolve" ELSE "hang",
                pre |-> grid, scoreIncrease |-> res.scoreIncrease,
                passes |-> res.passes, merges |-> res.merges,
                boards |-> res.boards, found |-> findAllTriplets(grid)]
    /\ grid' = res.grid
    /\ score' = score + res.scoreIncrease
    /\ nextId' = res.nextId

\* resolveAllMerges(grid)
Resolve ==
    /\ last.op = "board"
    /\ ApplyResolve(resolveAllMerges(grid, nextId))
    /\ UNCHANGED <<bestScore, isGameOver, isWon, canUndo, history,
                   undosRemaining, gameMode, rng, calls, now, played,
                   hookVars>>

MergeNext == Resolve

MergeSpec == MergeInit /\ [][MergeNext]_vars

(***************************************************************************)
(* The store late in a game: the board is drawn from the boards with one   *)
(* empty cell whose tiles carry three values laid out in a pattern of      *)
(* period 3 (value index = a*q + b*r + k mod 3), low in the progression or *)
(* just below its top, so that no tile is a 1062882 yet and both flags are *)
(* false; every spawn is a 2 or every spawn is a 6.  LateMoves moves are   *)
(* played from the board.                                                  *)
(***************************************************************************)
LateMoves == 1
LateSlopes == {<<0, 0>>, <<1, 0>>, <<1, 2>>}

lateValues(high) == IF high THEN <<2, 118098, 354294>> ELSE <<2, 6, 18>>

lateValueAt(coord, slope, k, high) ==
    lateValues(high)[((slope[1] * (coord[1] + radius)
                        + slope[2] * (coord[2] + radius) + k) % 3) + 1]

\* the tiles of a board on the given cells (indices of getAllGridCoords)
lateTiles(cells, slope, k, high) ==
    [i \in 1..Len(cells) |->
        [id |-> i,
         value |-> lateValueAt(getAllGridCoords[cells[i]], slope, k, high),
         position |-> getAllGridCoords[cells[i]],
         isNew |-> FALSE, isMerged |-> FALSE]]

lateBoard(slope, k, high, e) ==
    lateTiles(FilterIdx([i \in 1..Len(getAllGridCoords) |-> i],
                        {i \in 1..Len(getAllGridCoords) : i # e}, 1),
              slope, k, high)

LateInit ==
    /\ \E slope \in LateSlopes, k \in 0..2, high \in BOOLEAN,
          e \in 1..Len(getAllGridCoords) :
         grid = lateBoard(slope, k, high, e)
    /\ \E draw \in RandomDraws :
         rng = [pattern |-> [i \in 1..RandomPeriod |-> draw], pos |-> 0]
    /\ nextId = Len(getAllGridCoords)
    /\ score = 0
    /\ bestScore = 0
    /\ isGameOver = FALSE
    /\ isWon = FALSE
    /\ canUndo = FALSE
    /\ history = <<>>
    /\ undosRemaining = 3
    /\ gameMode = "classic"
    /\ calls = [move |-> Max(0, MaxMoves - LateMoves), reset |-> 0, undos |-> 0]
    /\ last = [op |-> "board"]
    /\ now = 0
    /\ played = <<>>
    /\ swipe = mountedHook

LateSpec == LateInit /\ [][StoreNext]_vars

(***************************************************************************)
(* initializeGameState for every outcome of its ten Math.random() calls,   *)
(* each any of RandomDraws; after it the generator repeats one draw.       *)
(***************************************************************************)
FreshInit ==
    /\ \E draws \in [1..5 -> RandomDraws \X RandomDraws] :
         InitState(initializeGameState(draws, 1))
    /\ \E draw \in RandomDraws :
         rng = [pattern |-> [i \in 1..RandomPeriod |-> draw], pos |-> 0]
    /\ gameMode = "classic"
    /\ nextId = 6
    /\ calls = [move |-> 0, reset |-> 0, undos |-> 0]
    /\ last = [op |-> "init"]
    /\ now = 0
    /\ played = <<>>
    /\ swipe = mountedHook

FreshNext == Reset

FreshSpec == FreshInit /\ [][FreshNext]_vars

(***************************************************************************)
(* The ids of tiles as the source builds them:                             *)
(*   `${Date.now()}-${Math.random().toString(36).substr(2, 5)}`            *)
(* A Math.random() result is the sequence of the base-36 digits that       *)
(* toString(36) prints after "0."; substr(2, 5) keeps the first five of    *)
(* them, fewer when fewer are printed.  Two id strings are equal exactly   *)
(* when their milliseconds and their suffixes are: an id is the pair.      *)
(* Tiles are spawned on an empty board and merged; the clock may advance   *)
(* between two calls.                                                      *)
(***************************************************************************)
MaxIdTiles == 3
MaxClock == 1
\* Math.random() results: 0.i, 0.9r, 0.123456 and 0.123457 in base 36
IdFractions == {<<18>>, <<9, 27>>, <<1, 2, 3, 4, 5, 6>>, <<1, 2, 3, 4, 5, 7>>}
\* Math.random() results, in thousandths, for the cell of a spawn
IdCellDraws == {0, 150}

idSuffix(fraction) == SubSeq(fraction, 1, Min(5, Len(fraction)))
tileId(ms, fraction) == <<ms, idSuffix(fraction)>>

IdInit ==
    /\ grid = initializeGrid
    /\ now = 0
    /\ played = <<>>
    /\ swipe = mountedHook
    /\ score = 0
    /\ bestScore = 0
    /\ isGameOver = FALSE
    /\ isWon = FALSE
    /\ canUndo = FALSE
    /\ history = <<>>
    /\ undosRemaining = 3
    /\ gameMode = "classic"
    /\ nextId = 1
    /\ rng = [pattern |-> [i \in 1..RandomPeriod |-> 0], pos |-> 0]
    /\ calls = [move |-> 0, reset |-> 0, undos |-> 0]
    /\ last = [op |-> "empty"]

\* addRandomTile(grid)
IdSpawn ==
    /\ Len(grid) < MaxIdTiles
    /\ \E rPos \in IdCellDraws, rVal \in RandomDraws, fraction \in IdFractions :
         /\ grid' = addRandomTile(grid, rPos, rVal, tileId(now, fraction))
         /\ last' = [op |-> "spawn", pre |-> grid, id |-> tileId(now, fraction)]
    /\ UNCHANGED <<score, bestScore, isGameOver, isWon, canUndo, history,
                   undosRemaining, gameMode, nextId, rng, calls, now, played,
                   hookVars>>

\* mergeTriplet(grid, triplet) for the first triplet findAllTriplets returns
IdMerge ==
    /\ Len(findAllTriplets(grid)) > 0
    /\ \E fraction \in IdFractions :
         /\ grid' = mergeTriplet(grid, findAllTriplets(grid)[1],
                                 tileId(now, fraction)).grid
         /\ score' = score + mergeTriplet(grid, findAllTriplets(grid)[1],
                                          tileId(now, fraction)).scoreIncrease
         /\ last' = [op |-> "merge", pre |-> grid, id |-> tileId(now, fraction)]
    /\ UNCHANGED <<bestScore, isGameOver, isWon, canUndo, history,
                   undosRemaining, gameMode, nextId, rng, calls, now, played,
                   hookVars>>

\* a millisecond passes
IdTick ==
    /\ now < MaxClock
    /\ now' = now + 1
    /\ UNCHANGED <<gameVars, gameMode, nextId, rng, calls, last, played,
                   hookVars>>

IdNext ==
    \/ IdSpawn
    \/ IdMerge
    \/ IdTick

IdSpec == IdInit /\ [][IdNext]_vars

(***************************************************************************)
(* The hook under touch events.  One finger: touchstart and touchend       *)
(* alternate.  Time passes in steps of SwipeStep milliseconds between      *)
(* events; a timer's callback runs at some point after it is due, and      *)
(* events that arrive before it has run find processingTouchRef still set. *)
(* last.start is the touch point and the time of the latest touchstart     *)
(* event, whether or not its handler recorded them.                        *)
(***************************************************************************)
SwipeStep == 100
MaxSwipeSteps == 7
\* clientX, clientY of the touches
SwipePoints == {<<0, 0>>, <<60, 0>>, <<20, 30>>}

SwipeInit ==
    /\ InitState(initializeGameState([i \in 1..5 |-> <<0, 0>>], 1))
    /\ gameMode = "classic"
    /\ nextId = 6
    /\ rng = [pattern |-> [i \in 1..RandomPeriod |-> 0], pos |-> 0]
    /\ calls = [move |-> 0, reset |-> 0, undos |-> 0]
    /\ played = <<>>
    /\ now = 0
    /\ swipe = mountedHook
    /\ last = [op |-> "mount", touching |-> FALSE,
               start |-> [point |-> <<0, 0>>, time |-> 0]]

engineVars == <<gameVars, gameMode, nextId, rng, calls, played>>

\* a touchstart event
TouchStart ==
    /\ ~last.touching
    /\ \E point \in SwipePoints :
         /\ swipe' = handleTouchStart(swipe, point[1], point[2], now)
         /\ last' = [op |-> "touchstart", touching |-> TRUE, pre |-> swipe,
                     point |-> point,
                     start |-> [point |-> point, time |-> now]]
    /\ UNCHANGED <<engineVars, now>>

\* a touchend event
TouchEnd ==
    /\ last.touching
    /\ \E point \in SwipePoints :
         /\ swipe' = handleTouchEnd(swipe, point[1], point[2], now).hook
         /\ last' = [op |-> "touchend", touching |-> FALSE, pre |-> swipe,
                     point |-> point, start |-> last.start,
                     dispatched |-> handleTouchEnd(swipe, point[1], point[2],
                                                   now).dispatched,
                     direction |-> handleTouchEnd(swipe, point[1], point[2],
                                                  now).direction]
    /\ UNCHANGED <<engineVars, now>>

\* the callback of a timer that is due runs
TimerFires ==
    /\ \E due \in swipe.timers :
         /\ due <= now
         /\ swipe' = cooldownOver(swipe, due)
         /\ last' = [op |-> "timer", touching |-> last.touching, pre |-> swipe,
                     start |-> last.start]
    /\ UNCHANGED <<engineVars, now>>

\* SwipeStep milliseconds pass
SwipeTime ==
    /\ now < MaxSwipeSteps * SwipeStep
    /\ now' = now + SwipeStep
    /\ last' = [op |-> "time", touching |-> last.touching, pre |-> swipe,
                 start |-> last.start]
    /\ UNCHANGED <<engineVars, swipe>>

SwipeNext ==
    \/ TouchStart
    \/ TouchEnd
    \/ TimerFires
    \/ SwipeTime

SwipeSpec == SwipeInit /\ [][SwipeNext]_vars

(***************************************************************************)
(* mergeTriplet as a function of the triplet: the board holds three tiles   *)
(* of one value on three pairwise adjacent cells of the grid, any such      *)
(* cells in any order, and possibly one more tile on another cell.          *)
(***************************************************************************)
\* the tiles of the board: a, b, c and o are indices of getAllGridCoords,
\* o = 0 when there is no fourth tile
threeTiles(a, b, c, o, base) ==
    [i \in 1..(IF o = 0 THEN 3 ELSE 4) |->
        [id |-> i,
         value |-> IF i <= 3 THEN base ELSE getNextValue(base),
         position |-> getAllGridCoords[<<a, b, c, o>>[i]],
         isNew |-> FALSE, isMerged |-> FALSE]]

TripletInit ==
    /\ \E a, b, c \in 1..Len(getAllGridCoords),
          o \in 0..Len(getAllGridCoords), base \in BaseValues :
         /\ hexDistance(getAllGridCoords[a], getAllGridCoords[b]) = 1
         /\ hexDistance(getAllGridCoords[b], getAllGridCoords[c]) = 1
         /\ hexDistance(getAllGridCoords[a], getAllGridCoords[c]) = 1
         /\ o \notin {a, b, c}
         /\ grid = threeTiles(a, b, c, o, base)
    /\ nextId = 5
    /\ score = 0
    /\ bestScore = 0
    /\ isGameOver = FALSE
    /\ isWon = FALSE
    /\ canUndo = FALSE
    /\ history = <<>>
    /\ undosRemaining = 3
    /\ gameMode = "classic"
    /\ rng = [pattern |-> [i \in 1..RandomPeriod |-> 0], pos |-> 0]
    /\ calls = [move |-> 0, reset |-> 0, undos |-> 0]
    /\ last = [op |-> "triplet"]
    /\ now = 0
    /\ played = <<>>
    /\ swipe = mountedHook

\* mergeTriplet(grid, [grid[0], grid[1], grid[2]])
MergeThree ==
    /\ last.op = "triplet"
    /\ grid' = mergeTriplet(grid, SubSeq(grid, 1, 3), nextId).grid
    /\ score' = score + mergeTriplet(grid, SubSeq(grid, 1, 3), nextId).scoreIncrease
    /\ nextId' = nextId + mergeTriplet(grid, SubSeq(grid, 1, 3), nextId).created
    /\ last' = [op |-> "mergeTriplet", pre |-> grid]
    /\ UNCHANGED <<bestScore, isGameOver, isWon, canUndo, history,
                   undosRemaining, gameMode, rng, calls, now, played,
                   hookVars>>

TripletNext == MergeThree

TripletSpec == TripletInit /\ [][TripletNext]_vars

(***************************************************************************)
(* Properties.  Helpers first; they read the recorded call (`last`) and    *)
(* use no operator of the engine beyond coordinate arithmetic.             *)
(***************************************************************************)
\* the progression 2 * 3^k, k = 0..12, written out independently of TILE_VALUES
Progression == {2 * 3^k : k \in 0..12}
Terminal == 2 * 3^12

inProgression(g) == \A i \in 1..Len(g) : g[i].value \in Progression

idsOf(g) == {g[i].id : i \in 1..Len(g)}

\* indices of the tiles of `after` that `before` does not hold
createdIn(after, before) == {i \in 1..Len(after) : after[i].id \notin idsOf(before)}

\* indices of the tiles of `before` that `after` no longer holds
consumedIn(before, after) == {i \in 1..Len(before) : before[i].id \notin idsOf(after)}

adjacent(a, b) ==
    \/ /\ a[1] = b[1]
       /\ Abs(a[2] - b[2]) = 1
    \/ /\ a[2] = b[2]
       /\ Abs(a[1] - b[1]) = 1
    \/ /\ a[1] + a[2] = b[1] + b[2]
       /\ Abs(a[1] - b[1]) = 1

distinctPositions(g) ==
    \A i, j \in 1..Len(g) : i # j => g[i].position # g[j].position

\* C1: in every reachable state no two tiles of the board share a position,
\* and the board never holds more tiles than the grid has valid coordinates,
\* which the claim puts at 37 for the default grid.
C1_UniquePositionsWithin37 ==
    /\ distinctPositions(grid)
    /\ Len(grid) <= Len(getAllGridCoords)
    /\ Len(getAllGridCoords) = 37

\* C2: every tile value, on the board and in every history snapshot, is one of
\* the 13 values 2 * 3^k; a spawn (initial fill, reset, after a move) produces
\* only 2 or 6; a merge produces exactly the successor (three times) of the
\* value of the three tiles it consumed.
C2_ValuesInProgression ==
    /\ inProgression(grid)
    /\ \A h \in 1..Len(history) : inProgression(history[h].grid)
    /\ last.op \in {"init", "reset"} =>
         \A i \in 1..Len(grid) : grid[i].value \in {2, 6}
    /\ last.op = "move" =>
         /\ \A i \in createdIn(grid, last.mergedGrid) : grid[i].value \in {2, 6}
         /\ inProgression(last.mergedGrid)
         /\ last.merges = 1 =>
              /\ Cardinality(consumedIn(last.movedGrid, last.mergedGrid)) = 3
              /\ Cardinality(createdIn(last.mergedGrid, last.movedGrid)) = 1
              /\ \A c \in createdIn(last.mergedGrid, last.movedGrid) :
                   \A t \in consumedIn(last.movedGrid, last.mergedGrid) :
                      last.mergedGrid[c].value = 3 * last.movedGrid[t].value

\* a move that merged one triplet and then spawned a 6
C2_MergedAndSpawned ==
    /\ last.op = "move"
    /\ last.merges = 1
    /\ \E i \in createdIn(grid, last.mergedGrid) : grid[i].value = 6

\* the recorded undo came right after a move made with undos left
undoAfterMove ==
    /\ last.op = "undo"
    /\ last.before.op = "move"
    /\ last.before.pre.undosRemaining > 0

\* the state is the state before the recorded move, one undo poorer
restoredBeforeMove ==
    /\ grid = last.before.pre.grid
    /\ score = last.before.pre.score
    /\ undosRemaining = last.before.pre.undosRemaining - 1
    /\ isGameOver = FALSE
    /\ isWon = FALSE

\* C3 (as stated): for any state S0 with undosRemaining > 0 and any direction
\* d, undoMove(moveInDirection(S0, d)) has the board and score of S0,
\* undosRemaining one less than S0, and isGameOver = isWon = false.
C3_UndoRoundTripAnyMove == undoAfterMove => restoredBeforeMove

\* C3 (amended): the same round trip for every direction d in which the slide
\* moves at least one tile of S0.
C3_UndoRoundTripEffectiveMove ==
    (undoAfterMove /\ last.before.moved) => restoredBeforeMove

\* an undo taken right after a scoring move, with an older snapshot below it
C3_UndoneScoringMove ==
    /\ undoAfterMove
    /\ last.before.moved
    /\ last.pre.score > score
    /\ Len(last.pre.history) >= 2

\* the guard of undoMove fails on the state the undo was called on
undoRefused ==
    \/ ~last.pre.canUndo
    \/ Len(last.pre.history) = 0
    \/ last.pre.undosRemaining = 0

\* C4: undoMove returns a state equal in every field to its input whenever
\* canUndo is false, or the history is empty, or undosRemaining is 0.
C4_RefusedUndoIsIdentity ==
    (last.op = "undo" /\ undoRefused) => GameState = last.pre

\* an undo refused for the budget alone: snapshots to restore, none left to spend
C4_RefusedForBudget ==
    /\ last.op = "undo"
    /\ last.pre.undosRemaining = 0
    /\ last.pre.canUndo
    /\ Len(last.pre.history) > 0

\* C5: undosRemaining is never negative, a move leaves it as it was, an undo
\* that takes effect lowers it by exactly 1, only a reset or a mode switch
\* raises it; between two resets at most 3 undos take effect in classic mode
\* and none in timeTrials and fastPace, where an undo never changes the state.
C5_UndoBudget ==
    /\ undosRemaining >= 0
    /\ last.op = "move" => undosRemaining = last.pre.undosRemaining
    /\ last.op = "undo" =>
         undosRemaining = IF GameState = last.pre
                          THEN last.pre.undosRemaining
                          ELSE last.pre.undosRemaining - 1
    /\ last.op \in {"blocked", "init"} \/ last.op \in {"reset", "setGameMode"}
         \/ undosRemaining <= last.pre.undosRemaining
    /\ calls.undos <= (IF gameMode = "classic" THEN 3 ELSE 0)
    /\ (gameMode # "classic" /\ last.op = "undo") => GameState = last.pre

\* the third undo of a classic game has just spent the budget
C5_BudgetSpent ==
    /\ gameMode = "classic"
    /\ last.op = "undo"
    /\ calls.undos = 3
    /\ undosRemaining = 0
    /\ last.pre.undosRemaining = 1

\* every tile of a is in b at the position it has in a
samePositions(a, b) ==
    \A i \in 1..Len(a) :
        \E j \in 1..Len(b) : b[j].id = a[i].id /\ b[j].position = a[i].position

\* three tiles of one value below the terminal one, pairwise adjacent
hasTriplet(g) ==
    \E i, j, k \in 1..Len(g) :
        /\ i < j
        /\ j < k
        /\ g[i].value = g[j].value
        /\ g[j].value = g[k].value
        /\ g[i].value # Terminal
        /\ adjacent(g[i].position, g[j].position)
        /\ adjacent(g[j].position, g[k].position)
        /\ adjacent(g[i].position, g[k].position)

\* C6: when the slide changes no tile's position, moveInDirection returns its
\* input unchanged: same board with the same flags, score, bestScore, history,
\* canUndo, isGameOver and isWon, and no tile spawned, even when the board
\* holds a mergeable triplet.
C6_NoOpMoveIsIdentity ==
    (last.op = "move" /\ samePositions(last.pre.grid, last.movedGrid)) =>
        /\ GameState = last.pre
        /\ Len(grid) = Len(last.pre.grid)

\* a move that slid nothing on a board that holds a mergeable triplet
C6_NoOpMoveOverTriplet ==
    /\ last.op = "move"
    /\ samePositions(last.pre.grid, last.movedGrid)
    /\ hasTriplet(last.pre.grid)

occupied(g, cell) == \E i \in 1..Len(g) : g[i].position = cell

tilesOn(g, line) == Cardinality({c \in 1..Len(line) : occupied(g, line[c])})

\* in every line of the direction the tiles fill the first cells, line[0] on
packedAtStart(g, direction) ==
    \A l \in 1..Len(Lines[direction]) :
        \A c \in 1..Len(Lines[direction][l]) :
            occupied(g, Lines[direction][l][c])
                <=> c <= tilesOn(g, Lines[direction][l])

\* in every line of the direction the tiles fill the last cells, up to the
\* cell furthest along DIRECTION_VECTORS[direction]
packedAtEnd(g, direction) ==
    \A l \in 1..Len(Lines[direction]) :
        \A c \in 1..Len(Lines[direction][l]) :
            occupied(g, Lines[direction][l][c])
                <=> c > Len(Lines[direction][l]) - tilesOn(g, Lines[direction][l])

\* C7 (as stated): sliding a board in direction d when every tile in every line
\* of d is already packed against the line's forward end, the last cell of the
\* line, returns a state equal to the input.
C7_PackedAtForwardEndIsNoOp ==
    (last.op = "move" /\ packedAtEnd(last.pre.grid, last.direction)) =>
        GameState = last.pre

\* C7 (amended): sliding a board in direction d when every tile in every line
\* of d is already packed against the line's first cell, line[0], the end
\* opposite to DIRECTION_VECTORS[d], returns a state equal to the input.
C7_PackedAtLineStartIsNoOp ==
    (last.op = "move" /\ packedAtStart(last.pre.grid, last.direction)) =>
        GameState = last.pre

\* a move on a board packed at the start of every line and not at their ends
C7_MovedPackedBoard ==
    /\ last.op = "move"
    /\ packedAtStart(last.pre.grid, last.direction)
    /\ ~packedAtEnd(last.pre.grid, last.direction)
    /\ Len(last.pre.grid) > 0

\* the occupied cells of a line, in the order of the line
occupiedCells(g, line) ==
    FilterIdx(line, {c \in 1..Len(line) : occupied(g, line[c])}, 1)

tileAt(g, cell) == g[CHOOSE i \in 1..Len(g) : g[i].position = cell]

\* the j-th tile of the line, counted from line[0], is in `after` at the j-th
\* cell of the line with its id and value
packedInOrder(before, after, line, cells) ==
    \A j \in 1..Len(cells) :
        \E t \in 1..Len(after) :
            /\ after[t].id = tileAt(before, cells[j]).id
            /\ after[t].value = tileAt(before, cells[j]).value
            /\ after[t].position = line[j]

\* C8: the slide phase relocates the k tiles of each line of the direction to
\* the first k cells of the line, c0..c(k-1), in their original order, each
\* keeping its id and value; no gap remains and no tile is added or lost.
C8_SlidePacksInOrder ==
    last.op = "move" =>
        /\ Len(last.movedGrid) = Len(last.pre.grid)
        /\ idsOf(last.movedGrid) = idsOf(last.pre.grid)
        /\ distinctPositions(last.movedGrid)
        /\ \A l \in 1..Len(Lines[last.direction]) :
             packedInOrder(last.pre.grid, last.movedGrid,
                           Lines[last.direction][l],
                           occupiedCells(last.pre.grid, Lines[last.direction][l]))

\* a slide that closed a gap in front of two tiles of different values on one
\* line
C8_SlidTwoAcrossGap ==
    /\ last.op = "move"
    /\ \E l \in 1..Len(Lines[last.direction]) :
         \E a, b \in 1..Len(Lines[last.direction][l]) :
            /\ 1 < a
            /\ a < b
            /\ ~occupied(last.pre.grid, Lines[last.direction][l][1])
            /\ occupied(last.pre.grid, Lines[last.direction][l][a])
            /\ occupied(last.pre.grid, Lines[last.direction][l][b])
            /\ tileAt(last.pre.grid, Lines[last.direction][l][a]).value
                 # tileAt(last.pre.grid, Lines[last.direction][l][b]).value

\* p is the integer nearest to n / 3
nearestThird(p, n) == Abs(3 * p - n) <= 1

\* the tile c lies on the rounded centroid of the tiles x, y, z
atCentroid(c, x, y, z) ==
    /\ nearestThird(c.position[1], x.position[1] + y.position[1] + z.position[1])
    /\ nearestThird(c.position[2], x.position[2] + y.position[2] + z.position[2])

\* the tiles x, y, z have one value and are pairwise adjacent
triangle(x, y, z) ==
    /\ x.value = y.value
    /\ y.value = z.value
    /\ adjacent(x.position, y.position)
    /\ adjacent(y.position, z.position)
    /\ adjacent(x.position, z.position)

\* a board of exactly three pairwise adjacent tiles of one non-terminal value
tripletBoard(g) ==
    /\ Len(g) = 3
    /\ triangle(g[1], g[2], g[3])
    /\ g[1].value \in Progression \ {Terminal}

\* C9: on a board of exactly three pairwise adjacent tiles of one non-terminal
\* value V, resolveAllMerges returns a board of exactly one tile, of the value
\* after V, on the rounded centroid of the three, flagged isMerged, and a
\* scoreIncrease of 3 * V.
C9_SingleTripletMerge ==
    (last.op \in {"resolve", "hang"} /\ tripletBoard(last.pre)) =>
        /\ last.op = "resolve"
        /\ Len(grid) = 1
        /\ grid[1].value = 3 * last.pre[1].value
        /\ atCentroid(grid[1], last.pre[1], last.pre[2], last.pre[3])
        /\ grid[1].isMerged = TRUE
        /\ last.scoreIncrease = 3 * last.pre[1].value

\* three tiles of 354294 were merged on a cell that is not the first tile's
C9_MergedTripletBoard ==
    /\ last.op = "resolve"
    /\ tripletBoard(last.pre)
    /\ last.pre[1].value = 354294
    /\ Len(grid) = 1
    /\ grid[1].position # last.pre[1].position

\* the working grid after pass i of the recorded resolution; 0: its input
boardAt(i) == IF i = 0 THEN last.pre ELSE last.boards[i]

\* after pass i the tile m, created by that pass, is pairwise adjacent to the
\* two other tiles x and y of its value
chainCase(i, m, x, y) ==
    /\ m \in createdIn(boardAt(i), boardAt(i - 1))
    /\ x # m
    /\ y # m
    /\ x < y
    /\ triangle(boardAt(i)[m], boardAt(i)[x], boardAt(i)[y])

\* pass j consumed the three tiles and created the tile of the next value on
\* their rounded centroid
mergedInPass(j, m, x, y) ==
    /\ {m.id, x.id, y.id} \subseteq idsOf(boardAt(j - 1))
    /\ {m.id, x.id, y.id} \cap idsOf(boardAt(j)) = {}
    /\ \E c \in createdIn(boardAt(j), boardAt(j - 1)) :
         /\ boardAt(j)[c].value = 3 * m.value
         /\ atCentroid(boardAt(j)[c], m, x, y)

mergedLater(i, m, x, y) ==
    \E j \in (i + 1)..Len(last.boards) : mergedInPass(j, m, x, y)

\* the value of the tiles that `after` holds and `before` does not: three times
\* the value merged, for each merge of the pass between them
RECURSIVE createdValue(_, _, _)
createdValue(after, before, i) ==
    IF i > Len(after) THEN 0
    ELSE (IF after[i].id \in idsOf(before) THEN 0 ELSE after[i].value)
           + createdValue(after, before, i + 1)

RECURSIVE passesScore(_)
passesScore(i) ==
    IF i = 0 THEN 0
    ELSE passesScore(i - 1) + createdValue(boardAt(i), boardAt(i - 1), 1)

\* m, x and y are the only tiles of their value, and it is not the terminal one
onlyTriplet(g, m, x, y) ==
    /\ g[m].value # Terminal
    /\ \A t \in 1..Len(g) : g[t].value = g[m].value => t \in {m, x, y}

validCells == {c \in (-2..2) \X (-2..2) : Abs(c[1] + c[2]) <= 2}

emptyCells(g) == {c \in validCells : ~occupied(g, c)}

\* three tiles of one value, whatever it is, pairwise adjacent
anyTriplet(g) ==
    \E i, j, k \in 1..Len(g) :
        /\ i < j
        /\ j < k
        /\ triangle(g[i], g[j], g[k])

\* the recorded call is a move whose slide changed the position of a tile
effectiveMove ==
    /\ last.op = "move"
    /\ ~samePositions(last.pre.grid, last.movedGrid)

\* C11: after every effective move isGameOver is true if and only if the
\* resulting board, after merges and spawn, has no empty cell and holds no
\* three pairwise adjacent tiles of equal value.
C11_GameOverIffFullAndStuck ==
    effectiveMove => (isGameOver <=> (emptyCells(grid) = {} /\ ~anyTriplet(grid)))

\* an effective move that filled the last cell and left nothing to merge
C11_MoveEndedGame ==
    /\ effectiveMove
    /\ isGameOver
    /\ emptyCells(grid) = {}
    /\ emptyCells(last.pre.grid) # {}

\* C12: after every effective move isWon is true if and only if some tile of
\* the resulting board has the value 1062882, however many cells are empty.
C12_WonIffTerminalTile ==
    effectiveMove => (isWon <=> \E i \in 1..Len(grid) : grid[i].value = Terminal)

\* an effective move that merged three 354294 into the first 1062882 of the
\* board and left cells empty
C12_MergedIntoTerminal ==
    /\ effectiveMove
    /\ isWon
    /\ \A i \in 1..Len(last.pre.grid) : last.pre.grid[i].value # Terminal
    /\ \E i \in createdIn(last.mergedGrid, last.movedGrid) :
         last.mergedGrid[i].value = Terminal
    /\ Cardinality(emptyCells(grid)) >= 2

\* a board as initializeGameState leaves it: five tiles of 2 or 6 on five
\* distinct cells of the grid
freshBoard(g) ==
    /\ Len(g) = 5
    /\ distinctPositions(g)
    /\ \A i \in 1..Len(g) : g[i].position \in validCells /\ g[i].value \in {2, 6}

\* C13: for every outcome of the random spawns, initializeGameState returns a
\* state whose board has exactly 5 tiles on 5 distinct valid cells, each of
\* value 2 or 6, with score 0, bestScore 0, undosRemaining 3, canUndo false,
\* empty history, isGameOver false and isWon false.
C13_InitialState ==
    last.op = "init" =>
        /\ freshBoard(grid)
        /\ score = 0
        /\ bestScore = 0
        /\ undosRemaining = 3
        /\ canUndo = FALSE
        /\ history = <<>>
        /\ isGameOver = FALSE
        /\ isWon = FALSE

\* an initial board whose first tile is a 6 on the first cell of the grid and
\* whose fifth tile is a 2 on the cell next to it
C13_MixedInitialBoard ==
    /\ last.op = "init"
    /\ grid[1].position = <<-2, 0>>
    /\ grid[5].position = <<-2, 1>>
    /\ grid[1].value = 6
    /\ grid[5].value = 2

\* C14: resetGame(state) returns a state whose bestScore is state.bestScore and
\* which is otherwise freshly initialized, 5 spawned tiles, score 0, empty
\* history, canUndo, isGameOver and isWon false, whatever the board, score,
\* flags and history of the input state were.
C14_ResetKeepsOnlyBestScore ==
    last.op \in {"reset", "setGameMode"} =>
        /\ bestScore = last.pre.bestScore
        /\ freshBoard(grid)
        /\ score = 0
        /\ history = <<>>
        /\ canUndo = FALSE
        /\ isGameOver = FALSE
        /\ isWon = FALSE

\* a reset of a won game with a score, a best score and a history
C14_ResetWonGame ==
    /\ last.op = "reset"
    /\ last.pre.isWon
    /\ last.pre.score > 0
    /\ last.pre.bestScore > 0
    /\ Len(last.pre.history) > 0
    /\ last.pre.canUndo
    /\ Len(last.pre.grid) > 5

\* the recorded call is one that keeps the state it was made on
callWithPre == last.op \in {"move", "blocked", "undo", "reset", "setGameMode"}

\* C15: bestScore never decreases along a sequence of moveInDirection,
\* undoMove, resetGame and setGameMode: no operation lowers it, and an
\* effective move sets it to the maximum of the old bestScore and the new
\* score.
C15_BestScoreMonotone ==
    /\ callWithPre => bestScore >= last.pre.bestScore
    /\ effectiveMove =>
         bestScore = IF score > last.pre.bestScore THEN score
                     ELSE last.pre.bestScore

\* an effective move of a new game that scores less than the best score kept
\* from the game before the reset
C15_BestScoreAboveScore ==
    /\ effectiveMove
    /\ score > 0
    /\ bestScore > score
    /\ calls.reset > 0

\* the undo budget of a mode, as GAME_MODES gives it
budgetOf(mode) == IF mode = "classic" THEN 3 ELSE 0

\* C16: in the store, setGameMode(m) resets the game (fresh 5-tile board,
\* score 0, empty history) and sets gameMode = m and undosRemaining to the undo
\* limit of m; resetGame keeps gameMode and sets undosRemaining to the undo
\* limit of gameMode; so undosRemaining never exceeds the undo limit of
\* gameMode (3 in classic, 0 in timeTrials and fastPace).
C16_ModeSetsUndoBudget ==
    /\ last.op = "setGameMode" =>
         /\ freshBoard(grid)
         /\ score = 0
         /\ history = <<>>
         /\ gameMode = last.mode
         /\ undosRemaining = budgetOf(last.mode)
    /\ last.op = "reset" =>
         /\ gameMode = last.preMode
         /\ undosRemaining = budgetOf(last.preMode)
    /\ undosRemaining <= budgetOf(gameMode)

\* a resetGame in fastPace mode, the mode set by a switch from classic
C16_ResetInFastPace ==
    /\ last.op = "reset"
    /\ gameMode = "fastPace"
    /\ last.preMode = "fastPace"
    /\ undosRemaining = 0
    /\ Len(last.pre.history) > 0

\* C17: the store's moveInDirection leaves the whole store state unchanged
\* whenever isGameOver or isWon is true; from such a state only undoMove,
\* resetGame or setGameMode change the board.
C17_MoveGatedByFlags ==
    (callWithPre /\ (last.pre.isGameOver \/ last.pre.isWon)) =>
        /\ last.op \in {"move", "blocked"} =>
             /\ GameState = last.pre
             /\ gameMode = last.preMode
        /\ grid # last.pre.grid => last.op \in {"undo", "reset", "setGameMode"}

\* a move refused on a won board on which every direction would slide a tile
C17_RefusedMoveOnWonBoard ==
    /\ last.op = "blocked"
    /\ last.pre.isWon
    /\ ~last.pre.isGameOver
    /\ \A d \in Directions : ~packedAtStart(grid, d)

\* C18: resolveAllMerges terminates on every board, the boards that hold three
\* pairwise adjacent tiles of the terminal value 1062882 included, for which
\* the merge leaves the board unchanged and adds no score.
C18_ResolveReturns ==
    last.op \in {"resolve", "hang"} =>
        /\ last.op = "resolve"
        /\ (\A i \in 1..Len(last.pre) : last.pre[i].value = Terminal) =>
             /\ grid = last.pre
             /\ last.scoreIncrease = 0

tripletIds(triplet) == {triplet[t].id : t \in 1..Len(triplet)}

\* C19: the triplets that one findAllTriplets scan returns are pairwise
\* disjoint: no tile is in two of them.
C19_TripletsDisjoint ==
    last.op \in {"resolve", "hang"} =>
        \A a, b \in 1..Len(last.found) :
            a # b => tripletIds(last.found[a]) \cap tripletIds(last.found[b]) = {}

\* C20: the board resolveAllMerges returns holds no three pairwise adjacent
\* tiles of equal value, and findAllTriplets finds nothing on it; hence, in the
\* state after an effective move, every such triplet of the board includes the
\* tile the move spawned.
C20_MergedBoardHasNoTriplet ==
    effectiveMove =>
        /\ ~anyTriplet(last.mergedGrid)
        /\ findAllTriplets(last.mergedGrid) = <<>>
        /\ \A i, j, k \in 1..Len(grid) :
             (i < j /\ j < k /\ triangle(grid[i], grid[j], grid[k]))
                 => {i, j, k} \cap createdIn(grid, last.mergedGrid) # {}

\* an effective move that merged a triplet and whose spawned tile completed
\* another one
C20_SpawnCompletedTriplet ==
    /\ effectiveMove
    /\ last.merges >= 1
    /\ anyTriplet(grid)
    /\ Cardinality(createdIn(grid, last.mergedGrid)) = 1

\* the places (line, index) of the lines of direction d that hold the cell c
placesOf(d, c) ==
    {p \in (1..Len(Lines[d])) \X (1..GRID_SIZE) :
        /\ p[2] <= Len(Lines[d][p[1]])
        /\ Lines[d][p[1]][p[2]] = c}

\* C21: getAllLines(d) partitions the grid: every valid coordinate is in
\* exactly one line, at one place; every line holds valid coordinates only, its
\* consecutive cells differ by DIRECTION_VECTORS[d], and it is maximal: the
\* cell before its first and the cell after its last are off the grid.
\* Checked for the direction of each move, over the lines the move slid.
C21_LinesPartitionGrid ==
    last.op = "move" =>
        /\ \A c \in validCells : Cardinality(placesOf(last.direction, c)) = 1
        /\ \A n \in 1..Len(Lines[last.direction]) :
             /\ Len(Lines[last.direction][n]) >= 1
             /\ Range(Lines[last.direction][n]) \subseteq validCells
             /\ \A i \in 1..(Len(Lines[last.direction][n]) - 1) :
                  Lines[last.direction][n][i + 1]
                      = <<Lines[last.direction][n][i][1]
                              + DIRECTION_VECTORS[last.direction + 1][1],
                          Lines[last.direction][n][i][2]
                              + DIRECTION_VECTORS[last.direction + 1][2]>>
             /\ <<Lines[last.direction][n][1][1]
                      - DIRECTION_VECTORS[last.direction + 1][1],
                  Lines[last.direction][n][1][2]
                      - DIRECTION_VECTORS[last.direction + 1][2]>> \notin validCells
             /\ <<Lines[last.direction][n][Len(Lines[last.direction][n])][1]
                      + DIRECTION_VECTORS[last.direction + 1][1],
                  Lines[last.direction][n][Len(Lines[last.direction][n])][2]
                      + DIRECTION_VECTORS[last.direction + 1][2]>> \notin validCells

\* a move in the last of the six directions that slid a tile along a whole
\* line of five cells, from its last cell to its first
C21_SlidAlongLongestLine ==
    /\ last.op = "move"
    /\ last.direction = 5
    /\ \E n \in 1..Len(Lines[5]) :
         /\ Len(Lines[5][n]) = GRID_SIZE
         /\ \E i \in 1..Len(last.pre.grid), j \in 1..Len(last.movedGrid) :
              /\ last.pre.grid[i].position = Lines[5][n][GRID_SIZE]
              /\ last.movedGrid[j].id = last.pre.grid[i].id
              /\ last.movedGrid[j].position = Lines[5][n][1]

\* C22: tile ids are unique: no two tiles of the board share an id, and the id
\* given to a tile that a spawn or a merge creates differs from the id of
\* every tile of the board it is added to and of every history snapshot.
C22_TileIdsUnique ==
    /\ \A i, j \in 1..Len(grid) : i # j => grid[i].id # grid[j].id
    /\ (last.op \in {"spawn", "merge"} /\ grid # last.pre) =>
         /\ \A i \in 1..Len(last.pre) : last.pre[i].id # last.id
         /\ \A h \in 1..Len(history) : \A i \in 1..Len(history[h].grid) :
              history[h].grid[i].id # last.id

\* the flags of the board are those of the recorded move: a tile is flagged
\* isNew only if the move spawned it, and isMerged only if a merge of the move
\* created it
flagsOfThisMove ==
    \A i \in 1..Len(grid) :
        /\ (("isNew" \in DOMAIN grid[i]) /\ grid[i].isNew)
               => i \in createdIn(grid, last.mergedGrid)
        /\ (("isMerged" \in DOMAIN grid[i]) /\ grid[i].isMerged)
               => /\ grid[i].id \notin idsOf(last.movedGrid)
                  /\ grid[i].id \in idsOf(last.mergedGrid)

\* C23 as stated: in the state returned by any moveInDirection call a tile has
\* isNew = true only if that call spawned it and isMerged = true only if a
\* merge of that call created it; no flag of an earlier move survives.
C23_FlagsResetByAnyMove ==
    last.op = "move" => flagsOfThisMove

\* C23 amended: the same for every effective moveInDirection call; a call that
\* moves no tile returns the board as it was, flags of the earlier call
\* included.
C23_FlagsResetByEffectiveMove ==
    /\ effectiveMove => flagsOfThisMove
    /\ (last.op = "move" /\ ~effectiveMove) => grid = last.pre.grid

\* an effective move played on a board that held a tile flagged isNew and a
\* tile flagged isMerged by an earlier move, both still on the board, unflagged
C23_EarlierFlagsCleared ==
    /\ effectiveMove
    /\ \A i \in 1..Len(grid) :
         grid[i].id \in idsOf(last.pre.grid) =>
             /\ ~grid[i].isNew
             /\ ~grid[i].isMerged
    /\ \E i, j \in 1..Len(last.pre.grid) :
         /\ ("isNew" \in DOMAIN last.pre.grid[i]) /\ last.pre.grid[i].isNew
         /\ last.pre.grid[i].id \in idsOf(grid)
         /\ last.pre.grid[j].isMerged
         /\ last.pre.grid[j].id \in idsOf(grid)

\* the recorded call is an undo that was not refused
undoDone ==
    /\ last.op = "undo"
    /\ ~undoRefused

\* C24: history is a stack of pre-move snapshots: an effective move appends
\* the pre-move {board, score} as the last entry and leaves the earlier ones as
\* they were, a successful undo removes the last entry and restores it; so the
\* history always lists the states held before the effective moves not yet
\* undone, and after n effective moves and k successful undos the board and
\* score are those held just before the (n-k+1)-th move.
C24_HistoryIsStackOfSnapshots ==
    /\ history = played
    /\ effectiveMove =>
         history = Append(last.pre.history,
                          [grid |-> last.pre.grid, score |-> last.pre.score])
    /\ undoDone =>
         /\ history = SubSeq(last.pre.history, 1, Len(last.pre.history) - 1)
         /\ grid = last.pre.history[Len(last.pre.history)].grid
         /\ score = last.pre.history[Len(last.pre.history)].score

\* three effective moves, the first of which scored, followed by two
\* successful undos: the state is the one held before the second move
C24_TwoOfThreeMovesUndone ==
    /\ undoDone
    /\ calls.undos = 2
    /\ Len(last.pre.history) = 2
    /\ Len(played) = 1
    /\ score > played[1].score

\* C25: after every successful undoMove isGameOver and isWon are false and the
\* restored board has at least one empty cell, so that hasValidMoves is true of
\* it and in at least one direction the slide moves a tile.
C25_UndoReturnsPlayableState ==
    undoDone =>
        /\ ~isGameOver
        /\ ~isWon
        /\ emptyCells(grid) # {}
        /\ hasValidMoves(grid)
        /\ \E d \in Directions : slideGrid(grid, d).moved

\* the undo of the move that filled the board and ended the game: the restored
\* board has a single empty cell
C25_UndidLosingMove ==
    /\ undoDone
    /\ last.pre.isGameOver
    /\ Cardinality(emptyCells(grid)) = 1

\* the recorded event is a touchend that called onSwipe
swipeDispatched ==
    /\ last.op = "touchend"
    /\ last.dispatched

\* C26: once a swipe is accepted and onSwipe is dispatched, no further onSwipe
\* is dispatched until the cooldown timer has fired: a dispatch finds no timer
\* pending, at most one timer is ever pending, and a touchend that arrives
\* while one is pending is ignored, leaving the hook as it was.  The timer of
\* a dispatch is due 200 ms after it.
C26_NoDispatchDuringCooldown ==
    /\ Cardinality(swipe.timers) <= 1
    /\ swipe.processingTouch <=> swipe.timers # {}
    /\ swipeDispatched =>
         /\ last.pre.timers = {}
         /\ swipe.timers = {now + 200}
         /\ now - last.pre.startTime <= 300
    /\ (last.op = "touchend" /\ last.pre.timers # {}) =>
         /\ ~last.dispatched
         /\ swipe = last.pre

\* a touchend 60 pixels from the recorded start and within 300 ms of it,
\* ignored because the timer of the previous swipe, already due, has not fired
C26_IgnoredWhileTimerDue ==
    /\ last.op = "touchend"
    /\ ~last.dispatched
    /\ \E due \in last.pre.timers : due <= now
    /\ now - last.pre.startTime <= 300
    /\ (last.point[1] - last.pre.startX) * (last.point[1] - last.pre.startX)
         + (last.point[2] - last.pre.startY) * (last.point[2] - last.pre.startY)
         >= 2500

\* the tile of the board g at the cell c is one of three tiles of g of equal
\* value that are pairwise adjacent
inTriplet(g, c) ==
    \E i, j, k \in 1..Len(g) :
        /\ g[i].position = c
        /\ j < k
        /\ j # i
        /\ k # i
        /\ triangle(g[i], g[j], g[k])

\* t is empty, or three distinct tiles of g of equal value, pairwise adjacent,
\* one of them at the cell c; and t is not empty exactly when the tile at c is
\* in such a triplet
tripletAt(g, c, t) ==
    /\ \/ t = <<>>
       \/ /\ Len(t) = 3
          /\ \A n \in 1..3 : \E i \in 1..Len(g) : g[i] = t[n]
          /\ t[1].id # t[2].id
          /\ t[1].id # t[3].id
          /\ t[2].id # t[3].id
          /\ triangle(t[1], t[2], t[3])
          /\ \E n \in 1..3 : t[n].position = c
    /\ (t # <<>>) <=> inTriplet(g, c)

\* C27: findTripletsAt(board, coord) returns an empty list or exactly three
\* distinct tiles of equal value that are pairwise adjacent and include the
\* tile at coord; it returns a non-empty list if and only if the tile at coord
\* is in at least one such triplet of the board.  Checked for every cell of
\* the grid on each board resolveAllMerges is called on.
C27_TripletAtCoord ==
    last.op \in {"resolve", "hang"} =>
        \A c \in validCells : tripletAt(last.pre, c, findTripletsAt(last.pre, c))

\* a board on which the first neighbour of a tile (at DIRECTION_VECTORS[0])
\* has its value and is left out of the triplet returned: the search passed
\* the pairs with it and found a later pair
C27_SecondPairFound ==
    /\ last.op = "resolve"
    /\ \E c \in validCells :
         /\ Len(findTripletsAt(last.pre, c)) = 3
         /\ \E i \in 1..Len(last.pre) :
              /\ adjacent(last.pre[i].position, c)
              /\ last.pre[i].value = findTripletsAt(last.pre, c)[1].value
              /\ last.pre[i].position = <<c[1] - 1, c[2] + 1>>
              /\ \A n \in 1..3 : findTripletsAt(last.pre, c)[n].id # last.pre[i].id

\* C28: hasValidMoves(board) is true if and only if the board has an empty
\* valid cell or holds three pairwise adjacent tiles of equal value, and
\* canMergeAnywhere(board) is true exactly when it holds such a triplet,
\* whatever the order of the tiles in the array.  Checked on the board of
\* every state.
C28_ValidMovesIffEmptyOrTriplet ==
    /\ hasValidMoves(grid) <=> (emptyCells(grid) # {} \/ anyTriplet(grid))
    /\ canMergeAnywhere(grid) <=> anyTriplet(grid)

\* a full board, left by a move, that holds a triplet: only the merge test
\* makes hasValidMoves true
C28_FullBoardWithTriplet ==
    /\ effectiveMove
    /\ emptyCells(grid) = {}
    /\ anyTriplet(grid)
    /\ hasValidMoves(grid)

\* the cells a and b are on one line of the direction d: they differ by a
\* multiple of its vector (q + r fixed for NORTHEAST and SOUTHWEST, r fixed for
\* EAST and WEST, q fixed for SOUTHEAST and NORTHWEST)
onOneLine(d, a, b) ==
    IF d % 3 = 0 THEN a[1] + a[2] = b[1] + b[2]
    ELSE IF d % 3 = 1 THEN a[2] = b[2]
    ELSE a[1] = b[1]

\* C29: sliding alone neither creates nor destroys a tile: after an effective
\* move in which no merge occurred the board holds every tile of the board
\* before the move, with its id and value, on the line of the move direction
\* it was on, and exactly one tile more, the spawned one.
C29_SlideKeepsTiles ==
    (effectiveMove /\ last.merges = 0) =>
        /\ Len(last.movedGrid) = Len(last.pre.grid)
        /\ last.mergedGrid = last.movedGrid
        /\ Len(grid) = Len(last.pre.grid) + 1
        /\ Cardinality(createdIn(grid, last.pre.grid)) = 1
        /\ \A i \in 1..Len(last.pre.grid) :
             Cardinality({j \in 1..Len(grid) :
                            /\ grid[j].id = last.pre.grid[i].id
                            /\ grid[j].value = last.pre.grid[i].value
                            /\ onOneLine(last.direction, last.pre.grid[i].position,
                                         grid[j].position)}) = 1
        /\ \A j \in createdIn(grid, last.pre.grid) :
             /\ grid[j].isNew
             /\ grid[j].value \in {2, 6}

\* an effective move without a merge in which two tiles of one line changed
\* cell
C29_SlidTwoOnOneLine ==
    /\ effectiveMove
    /\ last.merges = 0
    /\ \E i, j \in 1..Len(last.pre.grid) :
         /\ i # j
         /\ onOneLine(last.direction, last.pre.grid[i].position,
                      last.pre.grid[j].position)
         /\ \A k \in 1..Len(grid) :
              grid[k].id \in {last.pre.grid[i].id, last.pre.grid[j].id} =>
                  /\ grid[k].position # last.pre.grid[i].position
                  /\ grid[k].position # last.pre.grid[j].position

\* the tiles that the pass from `before` to `after` consumed are shared out
\* among the tiles it created: each created tile takes exactly three of them,
\* pairwise adjacent and of one value V, and has the value 3 * V; the other
\* tiles of `before` are in `after` as they were
mergedByThrees(before, after) ==
    /\ \E f \in [consumedIn(before, after) -> createdIn(after, before)] :
         \A k \in createdIn(after, before) :
            \E x, y, z \in consumedIn(before, after) :
               /\ x < y
               /\ y < z
               /\ {t \in consumedIn(before, after) : f[t] = k} = {x, y, z}
               /\ triangle(before[x], before[y], before[z])
               /\ after[k].value = 3 * before[x].value
    /\ \A t \in 1..Len(before) :
         t \notin consumedIn(before, after) => \E u \in 1..Len(after) : after[u] = before[t]
    /\ Len(after) = Len(before) - 2 * Cardinality(createdIn(after, before))

\* C30: within one pass of resolveAllMerges every tile is consumed by at most
\* one merge: each merge performed removes exactly three pairwise adjacent
\* tiles of one value V that are still on the working board and adds exactly
\* one tile, and the scoreIncrease returned is the sum of 3 * V over the
\* merges performed.
C30_EachTileMergedOnce ==
    last.op \in {"resolve", "hang"} =>
        /\ \A i \in 1..Len(last.boards) : mergedByThrees(boardAt(i - 1), boardAt(i))
        /\ last.op = "resolve" =>
             /\ last.scoreIncrease = passesScore(Len(last.boards))
             /\ grid = boardAt(Len(last.boards))

\* a pass for which findAllTriplets returned two triplets sharing a tile and
\* which merged the first of them only
C30_OverlappingTripletSkipped ==
    /\ last.op = "resolve"
    /\ Len(last.found) = 2
    /\ tripletIds(last.found[1]) \cap tripletIds(last.found[2]) # {}
    /\ Len(last.boards) >= 1
    /\ Cardinality(createdIn(boardAt(1), last.pre)) = 1
    /\ tripletIds(last.found[1]) \cap idsOf(boardAt(1)) = {}

\* the sign of a number
sign(n) == IF n > 0 THEN 1 ELSE IF n < 0 THEN -1 ELSE 0

\* where a compass name points on a screen whose y grows downward: the signs
\* of the change of x and of y
compass(d) ==
    IF d = NORTHEAST THEN <<1, -1>>
    ELSE IF d = EAST THEN <<1, 0>>
    ELSE IF d = SOUTHEAST THEN <<1, 1>>
    ELSE IF d = SOUTHWEST THEN <<-1, 1>>
    ELSE IF d = WEST THEN <<-1, 0>>
    ELSE <<-1, -1>>

\* the signs of the change of screen position from the cell a to the cell b
screenShift(a, b) ==
    <<sign(hexToPixel(b, 1).x - hexToPixel(a, 1).x),
      sign(hexToPixel(b, 1).y - hexToPixel(a, 1).y)>>

\* C31: every tile that the slide of a move puts on another cell is displaced
\* on screen as the compass name of the direction says: EAST to larger x with
\* y unchanged, WEST to smaller x with y unchanged, NORTHEAST to larger x and
\* smaller y, NORTHWEST to smaller x and smaller y, SOUTHEAST to larger x and
\* larger y, SOUTHWEST to smaller x and larger y (y grows downward).
C31_SlideMatchesCompass ==
    effectiveMove =>
        \A i \in 1..Len(last.pre.grid), j \in 1..Len(last.movedGrid) :
            (/\ last.movedGrid[j].id = last.pre.grid[i].id
             /\ last.movedGrid[j].position # last.pre.grid[i].position) =>
                screenShift(last.pre.grid[i].position,
                            last.movedGrid[j].position) = compass(last.direction)

\* a NORTHWEST move that slid a tile by two cells or more, up and to the left
C31_SlidNorthwest ==
    /\ effectiveMove
    /\ last.direction = NORTHWEST
    /\ \E i \in 1..Len(last.pre.grid), j \in 1..Len(last.movedGrid) :
         /\ last.movedGrid[j].id = last.pre.grid[i].id
         /\ hexToPixel(last.movedGrid[j].position, 1).y
              <= hexToPixel(last.pre.grid[i].position, 1).y - 2
         /\ hexToPixel(last.movedGrid[j].position, 1).x
              <= hexToPixel(last.pre.grid[i].position, 1).x - 2

\* C32: no stuck playable state: in every state in which isGameOver is false
\* there is a direction in which moveInDirection moves a tile, and so returns
\* a state different from the one it was given.
C32_NoStuckPlayableState ==
    ~isGameOver => \E d \in Directions : slideGrid(grid, d).moved

\* C33: for every three pairwise adjacent cells of the grid, the position
\* mergeTriplet gives the merged tile, the rounded componentwise average, is
\* one of the three cells: the merged tile is on a valid cell of the grid
\* that the merge has just vacated and never on the cell of another tile.
C33_CentroidIsTripletCell ==
    last.op = "mergeTriplet" =>
        /\ Cardinality(createdIn(grid, last.pre)) = 1
        /\ \A k \in createdIn(grid, last.pre) :
             /\ atCentroid(grid[k], last.pre[1], last.pre[2], last.pre[3])
             /\ grid[k].position \in {last.pre[i].position : i \in 1..3}
             /\ grid[k].position \in validCells
             /\ \A j \in 1..Len(grid) : j # k => grid[j].position # grid[k].position
        /\ consumedIn(last.pre, grid) = {1, 2, 3}

\* a merge, next to a fourth tile, of three tiles whose coordinates sum to
\* negative numbers that are not multiples of 3, put on the cell of the third
C33_RoundedToThirdCell ==
    /\ last.op = "mergeTriplet"
    /\ Len(last.pre) = 4
    /\ (last.pre[1].position[1] + last.pre[2].position[1]
          + last.pre[3].position[1]) \in {-5, -4, -2, -1}
    /\ (last.pre[1].position[2] + last.pre[2].position[2]
          + last.pre[3].position[2]) \in {-5, -4, -2, -1}
    /\ \E k \in createdIn(grid, last.pre) :
         /\ grid[k].position = last.pre[3].position
         /\ \E j \in 1..Len(grid) : adjacent(grid[j].position, grid[k].position)

\* the sum of the values of the tiles of a board, from the i-th tile on
RECURSIVE sumOfValues(_, _)
sumOfValues(g, i) == IF i > Len(g) THEN 0 ELSE g[i].value + sumOfValues(g, i + 1)

\* C34: value conservation: a resolveAllMerges call that returns leaves the
\* sum of the values of the tiles of the board unchanged, and across an
\* effective move the sum grows by exactly the value of the one tile spawned,
\* 2 or 6.
C34_ValuesConserved ==
    /\ last.op = "resolve" => sumOfValues(grid, 1) = sumOfValues(last.pre, 1)
    /\ effectiveMove =>
         /\ sumOfValues(last.movedGrid, 1) = sumOfValues(last.pre.grid, 1)
         /\ sumOfValues(last.mergedGrid, 1) = sumOfValues(last.pre.grid, 1)
         /\ (sumOfValues(grid, 1) - sumOfValues(last.pre.grid, 1)) \in {2, 6}
         /\ \E k \in createdIn(grid, last.mergedGrid) :
              sumOfValues(grid, 1) = sumOfValues(last.pre.grid, 1) + grid[k].value

\* an effective move that merged twice or more and spawned a 6
C34_MergedTwiceAndSpawnedSix ==
    /\ effectiveMove
    /\ last.merges >= 2
    /\ Len(grid) = Len(last.pre.grid) - 2 * last.merges + 1
    /\ sumOfValues(grid, 1) = sumOfValues(last.pre.grid, 1) + 6

\* C35: every effective move spawns exactly one tile: the board after the
\* slide and the merges has at least one empty cell, so addRandomTile does not
\* skip the spawn, and the number of tiles after the move is the number
\* before it, minus 2 for each merge performed, plus 1.
C35_EffectiveMoveSpawnsOne ==
    effectiveMove =>
        /\ emptyCells(last.mergedGrid) # {}
        /\ Len(emptyCoords(last.mergedGrid)) > 0
        /\ Len(last.mergedGrid) = Len(last.pre.grid) - 2 * last.merges
        /\ Cardinality(createdIn(grid, last.mergedGrid)) = 1
        /\ Len(grid) = Len(last.pre.grid) - 2 * last.merges + 1

\* an effective move without a merge on a board with one empty cell: the
\* spawn took the cell the slide had freed and filled the board
C35_SpawnFilledLastCell ==
    /\ effectiveMove
    /\ last.merges = 0
    /\ Cardinality(emptyCells(last.pre.grid)) = 1
    /\ Cardinality(emptyCells(last.mergedGrid)) = 1
    /\ emptyCells(last.mergedGrid) # emptyCells(last.pre.grid)
    /\ emptyCells(grid) = {}

\* C36: in every state reachable from initializeGameState by moves, undos
\* and resets, canUndo is true if and only if the history is non-empty.
C36_CanUndoIffHistory ==
    canUndo <=> Len(history) > 0

\* an undo took back the only move the history held: canUndo is false again
C36_UndoEmptiedHistory ==
    /\ undoDone
    /\ last.pre.canUndo
    /\ Len(last.pre.history) = 1
    /\ history = <<>>
    /\ ~canUndo

\* C37: in every reachable state bestScore >= score >= 0, and score is
\* greater than or equal to the score stored in every history entry.
C37_ScoresOrdered ==
    /\ bestScore >= score
    /\ score >= 0
    /\ \A i \in 1..Len(history) : score >= history[i].score

\* after a scoring move and a move taken back: the score is above the score
\* of a history entry and below the best score
C37_BetweenHistoryAndBest ==
    /\ undoDone
    /\ Len(history) >= 1
    /\ score > history[1].score
    /\ bestScore > score

\* C38: in every state reached through the store's actions the terminal flags
\* agree with the board: isWon is true if and only if some tile has the value
\* 1062882, and isGameOver is true if and only if the board is full and holds
\* no three pairwise adjacent tiles of equal value.
C38_FlagsAgreeWithBoard ==
    /\ isWon <=> \E i \in 1..Len(grid) : grid[i].value = Terminal
    /\ isGameOver <=> (emptyCells(grid) = {} /\ ~anyTriplet(grid))

\* the winning move was taken back: the flag is cleared and the board
\* restored holds no 1062882
C38_UndidWinningMove ==
    /\ undoDone
    /\ last.pre.isWon
    /\ \E i \in 1..Len(last.pre.grid) : last.pre.grid[i].value = Terminal
    /\ ~isWon
    /\ \A i \in 1..Len(grid) : grid[i].value < Terminal

\* the positions and values of the tiles of a board, whatever their order
placedValues(g) == {<<g[i].position, g[i].value>> : i \in 1..Len(g)}

\* the same tiles in other array orders: the last first, and the first last
reorderings(g) ==
    IF Len(g) = 0 THEN {g}
    ELSE {Reverse(g), SubSeq(g, 2, Len(g)) \o SubSeq(g, 1, 1)}

\* the result `res` of a resolveAllMerges call has the positions, values and
\* score of the recorded call
sameResult(res) ==
    /\ res.terminates
    /\ placedValues(res.grid) = placedValues(grid)
    /\ res.scoreIncrease = last.scoreIncrease

\* no tile of the board is in two triplets: each tile makes a triangle with
\* at most one pair of other tiles
tripletsApart(g) ==
    \A t \in 1..Len(g) :
        Cardinality({p \in (1..Len(g)) \X (1..Len(g)) :
                       /\ p[1] < p[2]
                       /\ p[1] # t
                       /\ p[2] # t
                       /\ triangle(g[t], g[p[1]], g[p[2]])}) <= 1

\* C39 as stated: the positions and values of the tiles resolveAllMerges
\* returns, and its score increase, do not depend on the order of the tiles
\* in the board array.
C39_ResolveIgnoresOrder ==
    last.op = "resolve" =>
        \A g \in reorderings(last.pre) :
            sameResult(resolveAllMerges(g, Len(g) + 1))

\* C39, amended: when no tile is in two triplets, on the board given and on
\* the working board after each pass, the positions and values of the tiles
\* resolveAllMerges returns, and its score increase, do not depend on the
\* order of the tiles in the board array.
C39_ResolveIgnoresOrderOfDisjointTriplets ==
    (/\ last.op = "resolve"
     /\ \A i \in 0..Len(last.boards) : tripletsApart(boardAt(i))) =>
        \A g \in reorderings(last.pre) :
            sameResult(resolveAllMerges(g, Len(g) + 1))

\* two merges or more, no tile in two triplets, and the reversed board
\* resolved to the same tiles stored in another order
C39_SameTilesInAnotherOrder ==
    /\ last.op = "resolve"
    /\ last.merges >= 2
    /\ \A i \in 0..Len(last.boards) : tripletsApart(boardAt(i))
    /\ sameResult(resolveAllMerges(Reverse(last.pre), Len(last.pre) + 1))
    /\ \E i \in 1..Len(grid) :
         resolveAllMerges(Reverse(last.pre), Len(last.pre) + 1).grid[i].position
            # grid[i].position

\* C40: every swipe dispatched is computed from the touchstart of the gesture
\* whose touchend triggered it: the start point and the start time that the
\* handler of the touchend used for the direction, the distance and the
\* duration are those of the latest touchstart event, under any interleaving
\* of touchstart, touchend and timer events.
C40_SwipeUsesOwnTouchStart ==
    swipeDispatched =>
        /\ last.pre.startX = last.start.point[1]
        /\ last.pre.startY = last.start.point[2]
        /\ last.pre.startTime = last.start.time

====
